---- MODULE Spec2Model ----
(***************************************************************************)
(* Relation engine of loopback-datasource-juggler (relation-definition.js) *)
(* as state machines, one specification per relation family:               *)
(*   SpecSingular    BelongsTo / HasOne accessors                          *)
(*   SpecHasMany     HasMany and HasManyThrough scope methods              *)
(*   SpecEmbedsMany  EmbedsMany scope methods and validations              *)
(*   SpecRefMany     ReferencesMany scope methods                          *)
(* Field values are strings: ids "1", "2", ..., model names, and the two   *)
(* JavaScript non-values undefined and null.  A record is a function from  *)
(* field names to values; "model" holds the name of its constructor.       *)
(* Every storage call is asynchronous: the calling action leaves a pending *)
(* entry, and a later action delivers the storage's answer to the          *)
(* callback, so that calls overlap as they do on the event loop.           *)
(* Property rules and custom scopes of the behavioural specifications      *)
(* name the data field "tag", never a key field of the relation.           *)
(***************************************************************************)
EXTENDS Integers, Sequences, FiniteSets, TLC

----------------------------------------------------------------------------
(* Bounds *)

\* storage calls and ticks in flight at once
MaxPending == 2

\* scope method calls on one EmbedsMany or ReferencesMany source in flight at
\* once
MaxCalls == 1

----------------------------------------------------------------------------
(* Values, records, filters *)

Undef == "undefined"
Null == "null"
NoCond == "*"

Fields == {"id", "fk", "fk2", "tag", "type"}

NoRec ==
  [id |-> Undef, fk |-> Undef, fk2 |-> Undef, tag |-> Undef, type |-> Undef, model |-> Undef]

Rec(m, id, fk, tag) ==
  [id |-> id, fk |-> fk, fk2 |-> Undef, tag |-> tag, type |-> Undef, model |-> m]

\* a callback argument or a cache entry: undefined, null or a record
VUndef == [k |-> "undef", r |-> NoRec]
VNull == [k |-> "null", r |-> NoRec]
VRec(r) == [k |-> "rec", r |-> r]

NoWhere == [f \in Fields |-> NoCond]

\* `x != null` of JavaScript: neither null nor undefined
NotNullish(x) == x # Null /\ x # Undef

\* utils.idEquals: strict equality, else number/string conversion
idEquals(a, b) == a = b

\* The where part of utils.mergeQuery: a condition of the update replaces
\* the base's condition on the same field.
mergeQuery(base, update) ==
  [f \in Fields |-> IF update[f] # NoCond THEN update[f] ELSE base[f]]

\* The connector's matching of a record against a where clause.  A null
\* condition matches a missing value.
Matches(r, where) ==
  \A f \in Fields :
    \/ where[f] = NoCond
    \/ where[f] = r[f]
    \/ where[f] = Null /\ r[f] = Undef

\* A condition whose value is undefined may be dropped by the connector:
\* the relation methods guard their own queries against an undefined key
\* (HasMany.findById, BelongsTo.related) for that reason.
MatchesLoose(r, where) ==
  \A f \in Fields :
    \/ where[f] = NoCond
    \/ where[f] = Undef
    \/ where[f] = r[f]
    \/ where[f] = Null /\ r[f] = Undef

\* What findOne may answer from a table: a storage error, a record the
\* filter selects, or null when it selects none.
FindOneAnswers(table, where) ==
  {[k |-> "err", r |-> NoRec]}
    \cup {VRec(r) : r \in {x \in table : MatchesLoose(x, where)}}
    \cup (IF {x \in table : Matches(x, where)} = {} THEN {VNull} ELSE {})

\* What findOrCreate may answer: an error, a row the filter
\* selects, or the row it creates from data when the filter selects none.
FindOrCreateAnswers(table, where, created) ==
  {[k |-> "err", r |-> NoRec]}
    \cup {[k |-> "found", r |-> r] : r \in {x \in table : MatchesLoose(x, where)}}
    \cup (IF {x \in table : Matches(x, where)} = {}
          THEN {[k |-> "created", r |-> created]} ELSE {})

\* the ids the storage generates, in order
IdStr(n) == <<"4", "5", "6", "7", "8", "9">>[n]

----------------------------------------------------------------------------
(* Model registry *)

ModelNames == {"Customer", "Post", "Order"}

toLowerCase(s) ==
  CASE s = "Customer" -> "customer"
    [] s = "Post" -> "post"
    [] s = "POST" -> "post"
    [] s = "Order" -> "order"
    [] s = "Photo" -> "photo"
    [] s = "Author" -> "author"
    [] s = "AUTHOR" -> "author"
    [] s = "Book" -> "book"
    [] s = "Link" -> "link"
    [] s = "AuthorBook" -> "authorbook"
    [] s = "BookAuthor" -> "bookauthor"
    [] s = "AuthorAuthor" -> "authorauthor"
    [] s = "BookBook" -> "bookbook"
    [] OTHER -> s

lookupModelExactOnly(models, modelName) ==
  IF modelName \in models THEN modelName ELSE Undef

lookupModel(models, modelName) ==
  IF modelName \in models THEN modelName
  ELSE IF \E n \in models : toLowerCase(n) = toLowerCase(modelName)
       THEN CHOOSE n \in models : toLowerCase(n) = toLowerCase(modelName)
       ELSE Undef

----------------------------------------------------------------------------
(* Relation definitions *)

NoPoly == [on |-> FALSE, discriminator |-> "type", foreignKey |-> "fk", invert |-> FALSE]
Poly == [on |-> TRUE, discriminator |-> "type", foreignKey |-> "fk", invert |-> FALSE]

NoScope == [kind |-> "none", where |-> NoWhere]
TagScope == [kind |-> "static", where |-> [NoWhere EXCEPT !["tag"] = "a"]]
FnScope == [kind |-> "fn", where |-> NoWhere]

NoProps == [kind |-> "map", list |-> <<>>, map |-> <<>>]
ListProps == [kind |-> "list", list |-> <<"tag">>, map |-> <<>>]
MapProps == [kind |-> "map", list |-> <<>>, map |-> << <<"tag", "tag">> >>]
FnProps == [kind |-> "fn", list |-> <<>>, map |-> <<>>]

Definition(type, from, to, keyFrom, keyTo, poly, scope, props) ==
  [type |-> type, modelFrom |-> from, modelTo |-> to, keyFrom |-> keyFrom,
   keyTo |-> keyTo, polymorphic |-> poly, scope |-> scope, properties |-> props,
   modelThrough |-> Undef, keyThrough |-> Undef, invertProperties |-> FALSE,
   embedsProperties |-> FALSE]

\* A computed scope: selects the targets carrying the instance's tag.
ScopeFn(inst) ==
  IF NotNullish(inst["tag"]) THEN [NoWhere EXCEPT !["tag"] = inst["tag"]] ELSE NoWhere

\* A computed property rule: hands the instance's tag to the target.
PropsFn(source) ==
  IF NotNullish(source["tag"]) THEN << <<"tag", source["tag"]>> >> ELSE <<>>

Stamped(def) ==
  (def.type # "belongsTo" \/ def.type = "hasOne") /\ def.polymorphic.on

DiscriminatorValue(def) ==
  IF def.polymorphic.invert THEN def.modelTo ELSE def.modelFrom

\* applyScope that merges the custom scope first and stamps the
\* discriminator last
applyScopeStampsLast(def, inst, where) ==
  LET scope == IF def.scope.kind = "fn" THEN ScopeFn(inst) ELSE def.scope.where
      w1 == IF def.scope.kind = "none" THEN where ELSE mergeQuery(where, scope)
  IN IF Stamped(def)
     THEN [w1 EXCEPT ![def.polymorphic.discriminator] = DiscriminatorValue(def)]
     ELSE w1

\* RelationDefinition.prototype.applyScope on the filter's where clause
applyScope(def, inst, where) ==
  LET w1 == IF Stamped(def)
            THEN [where EXCEPT ![def.polymorphic.discriminator] = DiscriminatorValue(def)]
            ELSE where
      scope == IF def.scope.kind = "fn" THEN ScopeFn(inst) ELSE def.scope.where
  IN IF def.scope.kind = "none" THEN w1 ELSE mergeQuery(w1, scope)

RECURSIVE CopyList(_, _, _)
CopyList(keys, source, target) ==
  IF keys = <<>> THEN target
  ELSE CopyList(Tail(keys), source, [target EXCEPT ![Head(keys)] = source[Head(keys)]])

RECURSIVE CopyMap(_, _, _)
CopyMap(pairs, source, target) ==
  IF pairs = <<>> THEN target
  ELSE CopyMap(Tail(pairs), source,
               [target EXCEPT ![Head(pairs)[2]] = source[Head(pairs)[1]]])

RECURSIVE CopyData(_, _)
CopyData(data, target) ==
  IF data = <<>> THEN target
  ELSE CopyData(Tail(data), [target EXCEPT ![Head(data)[1]] = Head(data)[2]])

\* the object the rules write to: obj, the instance under invertProperties,
\* or under embedsProperties a fresh object stored in that record under the
\* relation's name, which starts with the source's keyTo alone
PropertiesTarget(def, inst, obj) ==
  LET source == IF def.invertProperties THEN obj ELSE inst
      target == IF def.invertProperties THEN inst ELSE obj
  IN IF def.embedsProperties THEN [NoRec EXCEPT ![def.keyTo] = source[def.keyTo]]
     ELSE target

\* applyProperties that stamps the discriminator before the rule copies
applyPropertiesStampsFirst(def, inst, obj) ==
  LET source == IF def.invertProperties THEN obj ELSE inst
      target == PropertiesTarget(def, inst, obj)
      t0 == IF Stamped(def)
            THEN [target EXCEPT ![def.polymorphic.discriminator] = DiscriminatorValue(def)]
            ELSE target
  IN CASE def.properties.kind = "fn" -> CopyData(PropsFn(source), t0)
       [] def.properties.kind = "list" -> CopyList(def.properties.list, source, t0)
       [] OTHER -> CopyMap(def.properties.map, source, t0)

\* RelationDefinition.prototype.applyProperties: the object written to
\* after the copy.
applyProperties(def, inst, obj) ==
  LET source == IF def.invertProperties THEN obj ELSE inst
      target == PropertiesTarget(def, inst, obj)
      t1 == CASE def.properties.kind = "fn" -> CopyData(PropsFn(source), target)
              [] def.properties.kind = "list" -> CopyList(def.properties.list, source, target)
              [] OTHER -> CopyMap(def.properties.map, source, target)
  IN IF Stamped(def)
     THEN [t1 EXCEPT ![def.polymorphic.discriminator] = DiscriminatorValue(def)]
     ELSE t1

----------------------------------------------------------------------------
(* State *)

\* BelongsTo / HasOne
VARIABLES
  sDef,      \* the relation definition bound by the accessor
  sInst,     \* the source model instance
  sCache,    \* modelInstance.__cachedRelations[definition.name]
  sStore,    \* the target tables, by model name
  sNextId,   \* how many ids the storage has generated
  sOps,      \* how many create, update and destroy calls were made
  sPending,  \* storage calls and ticks whose callback has not run yet
  sEv        \* what the last accessor call or callback did

\* HasMany / HasManyThrough
VARIABLES
  hDef,      \* the relation definition
  hInst,     \* the source model instance
  hCache,    \* modelInstance.__cachedRelations[definition.name]
  hTargets,  \* the table of modelTo
  hJoins,    \* the table of modelThrough
  hNextId,   \* how many ids the storage has generated
  hCreates,  \* the HasManyThrough.create calls in flight, with their items
  hPending,  \* storage calls and ticks whose callback has not run yet
  hEv        \* what the last scope method call or callback did

\* EmbedsMany
VARIABLES
  eDef,      \* the relation definition and the validations of its factory
  eInst,     \* the source model instance, without the embedded property
  eIsNew,    \* modelInstance.isNewRecord()
  eList,     \* modelInstance[propertyName]: the embedded list in memory
  eStored,   \* the embedded list as persisted with the source record
  eNextOid,  \* how many embedded items have been constructed
  ePending,  \* hooks, storage calls and ticks whose callback has not run yet
  eEv,       \* what the last scope method call or callback did, and the errors of
             \* the validation it ran
  eTrip      \* the caller's create / destroyById round trip

\* ReferencesMany
VARIABLES
  rDef,      \* the relation definition
  rInst,     \* the source model instance, without the id list
  rIds,      \* modelInstance[fk]: the id list in memory
  rStored,   \* the id list as persisted with the source record
  rTargets,  \* the table of modelTo
  rPending,  \* storage calls and ticks whose callback has not run yet
  rEv        \* what the last scope method call or callback did

\* EmbedsOne
VARIABLES
  oInst,     \* the source model instance, without the embedded property
  oIsNew,    \* modelInstance.isNewRecord()
  oHeap,     \* the embedded instances constructed so far, as they are now
  oValue,    \* modelInstance[propertyName]: which instance, 0 when unset
  oStored,   \* the embedded value as persisted with the source record
  oPending,  \* hooks, storage calls and ticks whose callback has not run yet
  oEv        \* what the last scope method call or callback did

\* The parent propagation of embedded instances
VARIABLES
  pType,     \* the relation type: embedsOne or embedsMany
  pValue,    \* modelInstance[propertyName]: the instances it holds, in order
  pStored,   \* the property as persisted with the source record
  pWraps,    \* per instance: how many times its trigger was wrapped
  pRuns,     \* the lifecycle actions of embedded instances under way
  pEv        \* what the last step did

\* throughKeys and applyScope, applied to one input
VARIABLES
  qCall,     \* the function called and what it was given
  qRet       \* what it returned

\* The factories of relation definitions
VARIABLES
  dModels,    \* modelBuilder.models: the names of the registered models
  dRelations, \* the definitions in the relations registries of the models
  dCalls,     \* how many factory calls were made
  dEv         \* what the last factory call was given and what came of it

sVars == <<sDef, sInst, sCache, sStore, sNextId, sOps, sPending, sEv>>
hVars == <<hDef, hInst, hCache, hTargets, hJoins, hNextId, hCreates, hPending, hEv>>

eVars == <<eDef, eInst, eIsNew, eList, eStored, eNextOid, ePending, eEv, eTrip>>

rVars == <<rDef, rInst, rIds, rStored, rTargets, rPending, rEv>>

dVars == <<dModels, dRelations, dCalls, dEv>>

oVars == <<oInst, oIsNew, oHeap, oValue, oStored, oPending, oEv>>

pVars == <<pType, pValue, pStored, pWraps, pRuns, pEv>>

qVars == <<qCall, qRet>>

vars == <<sVars, hVars, eVars, rVars, dVars, oVars, pVars, qVars>>

\* what the actions of one family leave alone
sOthers == <<hVars, eVars, rVars, dVars, oVars, pVars, qVars>>
hOthers == <<sVars, eVars, rVars, dVars, oVars, pVars, qVars>>
eOthers == <<sVars, hVars, rVars, dVars, oVars, pVars, qVars>>
rOthers == <<sVars, hVars, eVars, dVars, oVars, pVars, qVars>>
dOthers == <<sVars, hVars, eVars, rVars, oVars, pVars, qVars>>
oOthers == <<sVars, hVars, eVars, rVars, dVars, pVars, qVars>>
pOthers == <<sVars, hVars, eVars, rVars, dVars, oVars, qVars>>
qOthers == <<sVars, hVars, eVars, rVars, dVars, oVars, pVars>>

\* the relation families a specification does not exercise stay as built
SIdle ==
  /\ sDef = Undef
  /\ sInst = NoRec
  /\ sCache = VUndef
  /\ sStore = {}
  /\ sNextId = 0
  /\ sOps = 0
  /\ sPending = {}
  /\ sEv = Undef

HIdle ==
  /\ hDef = Undef
  /\ hInst = NoRec
  /\ hCache = Undef
  /\ hTargets = {}
  /\ hJoins = {}
  /\ hNextId = 0
  /\ hCreates = {}
  /\ hPending = {}
  /\ hEv = Undef

EIdle ==
  /\ eDef = Undef
  /\ eInst = NoRec
  /\ eIsNew = FALSE
  /\ eList = <<>>
  /\ eStored = <<>>
  /\ eNextOid = 0
  /\ ePending = {}
  /\ eEv = Undef
  /\ eTrip = Undef

RIdle ==
  /\ rDef = Undef
  /\ rInst = NoRec
  /\ rIds = <<>>
  /\ rStored = <<>>
  /\ rTargets = {}
  /\ rPending = {}
  /\ rEv = Undef

DIdle ==
  /\ dModels = {}
  /\ dRelations = {}
  /\ dCalls = 0
  /\ dEv = Undef

OIdle ==
  /\ oInst = NoRec
  /\ oIsNew = FALSE
  /\ oHeap = <<>>
  /\ oValue = 0
  /\ oStored = Undef
  /\ oPending = {}
  /\ oEv = Undef

PIdle ==
  /\ pType = Undef
  /\ pValue = <<>>
  /\ pStored = <<>>
  /\ pWraps = <<>>
  /\ pRuns = {}
  /\ pEv = Undef

QIdle ==
  /\ qCall = [fn |-> "none"]
  /\ qRet = [done |-> FALSE]

----------------------------------------------------------------------------
(* BelongsTo / HasOne: construction *)

\* a where condition handed to the getter in place of the refresh flag
CondQuery == [NoWhere EXCEPT !["tag"] = "b"]

SEvent(op, err, val, lookup, refresh, arg, resp) ==
  [op |-> op, err |-> err, val |-> val, lookup |-> lookup, refresh |-> refresh,
   arg |-> arg, resp |-> resp]

SDefs ==
  {Definition("belongsTo", "Order", "Customer", "fk", "id", NoPoly, sc, pr) :
     sc \in {NoScope, TagScope}, pr \in {NoProps, ListProps}}
  \cup {Definition("belongsTo", "Order", Undef, "fk", "id", Poly, NoScope, NoProps)}
  \cup {Definition("hasOne", "Order", "Customer", "id", "fk", NoPoly, sc, NoProps) :
     sc \in {NoScope, TagScope}}

SInitStore ==
  [m \in ModelNames |->
     CASE m = "Customer" -> {Rec("Customer", "1", "1", "a"), Rec("Customer", "2", "2", "b")}
       [] m = "Post" -> {Rec("Post", "1", Undef, "a")}
       [] OTHER -> {}]

SInit ==
  /\ sDef \in SDefs
  /\ \E key \in {"1", Undef}, disc \in {"Post", "POST", "Photo", Undef} :
       /\ (~sDef.polymorphic.on) => disc = Undef
       /\ sInst = [Rec("Order", "1", Undef, "a") EXCEPT ![sDef.keyFrom] = key, !["type"] = disc]
  /\ sCache = VUndef
  /\ sStore = SInitStore
  /\ sNextId = 0
  /\ sOps = 0
  /\ sPending = {}
  /\ sEv = SEvent("init", "none", VUndef, FALSE, "false", Undef, VUndef)

\* Relation.prototype.resetCache
resetCache(cache) == cache

\* Relation.prototype.getCache
getCache == sCache

\* records a caller may hand to the accessor as a setter argument
SetterValues ==
  IF sDef.polymorphic.on THEN sStore["Customer"] \cup sStore["Post"]
  ELSE sStore[sDef.modelTo]

----------------------------------------------------------------------------
(* BelongsTo.prototype.related / get *)

ErrAns == [k |-> "err", r |-> NoRec]

\* the check of the resolved record against the instance's foreign key
BelongsTo_keyMatchesAlways(inst, modelInstance, pk, fk) == TRUE

BelongsTo_keyMatches(inst, modelInstance, pk, fk) ==
  /\ NotNullish(inst[pk])
  /\ NotNullish(modelInstance[fk])
  /\ inst[pk] = modelInstance[fk]

\* a setter that writes the foreign key and forgets the cache
BelongsTo_setterKeepsCache(newValue) ==
  /\ sInst' = [sInst EXCEPT ![sDef.keyFrom] = newValue[sDef.keyTo]]
  /\ sEv' = SEvent("setter", "none", VRec(newValue), FALSE, "false", Undef, VUndef)
  /\ UNCHANGED <<sDef, sCache, sStore, sPending>>

\* order.customer(customer): the setter
BelongsTo_setter(newValue) ==
  LET pk == sDef.keyTo
      fk == sDef.keyFrom
      i1 == [sInst EXCEPT ![fk] = newValue[pk]]
      i2 == IF sDef.polymorphic.on
            THEN [i1 EXCEPT ![sDef.polymorphic.discriminator] = newValue["model"]]
            ELSE i1
      written == applyProperties(sDef, i2, newValue)
  IN /\ sInst' = IF sDef.invertProperties THEN written ELSE i2
     /\ sCache' = resetCache(VRec(IF sDef.invertProperties THEN newValue ELSE written))
     /\ sEv' = SEvent("setter", "none",
                       VRec(IF sDef.invertProperties THEN newValue ELSE written),
                       FALSE, "false", Undef, VUndef)
     /\ UNCHANGED <<sDef, sStore, sPending>>

\* the target model of the asynchronous getter: definition.modelTo, or for a
\* polymorphic relation the model the discriminator value names
BelongsTo_modelTo ==
  IF sDef.polymorphic.on
  THEN lookupModel(ModelNames, toLowerCase(sInst[sDef.polymorphic.discriminator]))
  ELSE sDef.modelTo

\* the getter leaves the cache alone and asks the storage even when the
\* foreign key is not set
BelongsTo_getterNoKeyCheck(condOrRefresh) ==
  LET pk == sDef.keyTo
      fk == sDef.keyFrom
      where == applyScope(sDef, sInst, [NoWhere EXCEPT ![pk] = sInst[fk]])
  IN /\ Cardinality(sPending) < MaxPending
     /\ sPending' = sPending \cup {[kind |-> "findOne", model |-> BelongsTo_modelTo, where |-> where]}
     /\ sEv' = SEvent("getter", "none", VUndef, TRUE, condOrRefresh, Undef, VUndef)
     /\ UNCHANGED <<sDef, sInst, sCache, sStore>>

\* order.customer(condOrRefresh, cb): the asynchronous getter
BelongsTo_getter(condOrRefresh) ==
  LET pk == sDef.keyTo
      fk == sDef.keyFrom
      discriminator == sDef.polymorphic.discriminator
      cachedValue == IF condOrRefresh = "false" THEN getCache ELSE VUndef
      q0 == [NoWhere EXCEPT ![pk] = sInst[fk]]
      q1 == applyScope(sDef, sInst, q0)
      query == IF condOrRefresh = "cond" THEN mergeQuery(q1, CondQuery) ELSE q1
  IN /\ Cardinality(sPending) < MaxPending
     /\ UNCHANGED <<sDef, sInst, sCache, sStore>>
     /\ IF sDef.polymorphic.on /\ ~NotNullish(sInst[discriminator])
        THEN /\ sEv' = SEvent("getter", "throw", VUndef, FALSE, condOrRefresh, discriminator, VUndef)
             /\ UNCHANGED sPending
        ELSE IF sDef.polymorphic.on /\ BelongsTo_modelTo = Undef
        THEN /\ sEv' = SEvent("getter", "throw", VUndef, FALSE, condOrRefresh,
                              toLowerCase(sInst[discriminator]), VUndef)
             /\ UNCHANGED sPending
        ELSE IF cachedValue.k # "rec"
        THEN IF ~NotNullish(q0[pk])
             THEN /\ sPending' = sPending \cup {[kind |-> "tick", model |-> Undef, where |-> NoWhere]}
                  /\ sEv' = SEvent("getter", "none", VUndef, FALSE, condOrRefresh, Undef, VUndef)
             ELSE /\ sPending' = sPending \cup
                       {[kind |-> "findOne", model |-> BelongsTo_modelTo, where |-> query]}
                  /\ sEv' = SEvent("getter", "none", VUndef, TRUE, condOrRefresh,
                                   BelongsTo_modelTo, VUndef)
        ELSE /\ sEv' = SEvent("getter", "none", cachedValue, FALSE, condOrRefresh, Undef, VUndef)
             /\ UNCHANGED sPending

\* the callback of modelTo.findOne in the getter
BelongsTo_findOneCb(p, ans) ==
  /\ sPending' = sPending \ {p}
  /\ UNCHANGED <<sDef, sInst, sStore>>
  /\ IF ans.k = "err"
     THEN /\ sEv' = SEvent("findOneCb", "storage", VUndef, FALSE, "false", Undef, ans)
          /\ UNCHANGED sCache
     ELSE IF ans.k = "null"
     THEN /\ sEv' = SEvent("findOneCb", "none", VNull, FALSE, "false", Undef, ans)
          /\ UNCHANGED sCache
     ELSE IF BelongsTo_keyMatches(ans.r, sInst, sDef.keyTo, sDef.keyFrom)
     THEN /\ sCache' = resetCache(VRec(ans.r))
          /\ sEv' = SEvent("findOneCb", "none", VRec(ans.r), FALSE, "false", Undef, ans)
     ELSE /\ sEv' = SEvent("findOneCb", "400", VUndef, FALSE, "false", Undef, ans)
          /\ UNCHANGED sCache

\* order.customer(): the synchronous getter returns the cached value
BelongsTo_syncGetter == getCache

\* order.customer(value) with a value that is neither a record, a function
\* nor undefined: the last branch assigns newValue, which only the record
\* branch ever sets, so the foreign key becomes undefined
BelongsTo_rawSetter(condOrRefresh) ==
  LET newValue == Undef
  IN /\ sInst' = [sInst EXCEPT ![sDef.keyFrom] = newValue]
     /\ sCache' = VUndef
     /\ sEv' = SEvent("rawSetter", "none", VUndef, FALSE, "true", condOrRefresh, VUndef)
     /\ UNCHANGED <<sDef, sStore, sPending>>

----------------------------------------------------------------------------
(* HasOne.prototype.related / get *)

HasOne_keyMatches(inst, modelInstance, pk, fk) ==
  /\ NotNullish(inst[fk])
  /\ NotNullish(modelInstance[pk])
  /\ inst[fk] = modelInstance[pk]

\* customer.profile(profile): the setter
HasOne_setter(newValue) ==
  LET nv == [newValue EXCEPT ![sDef.keyTo] = sInst[sDef.keyFrom]]
  IN /\ sCache' = resetCache(VRec(nv))
     /\ sEv' = SEvent("setter", "none", VRec(nv), FALSE, "false", Undef, VUndef)
     /\ UNCHANGED <<sDef, sInst, sStore, sPending>>

\* customer.profile(condOrRefresh, cb): the asynchronous getter
HasOne_getter(condOrRefresh) ==
  LET fk == sDef.keyTo
      pk == sDef.keyFrom
      cachedValue == IF condOrRefresh = "false" THEN getCache ELSE VUndef
      query == applyScope(sDef, sInst, [NoWhere EXCEPT ![fk] = sInst[pk]])
  IN /\ Cardinality(sPending) < MaxPending
     /\ UNCHANGED <<sDef, sInst, sCache, sStore>>
     /\ IF cachedValue.k = "undef"
        THEN /\ sPending' = sPending \cup
                  {[kind |-> "findOne", model |-> sDef.modelTo, where |-> query]}
             /\ sEv' = SEvent("getter", "none", VUndef, TRUE, condOrRefresh, Undef, VUndef)
        ELSE /\ sEv' = SEvent("getter", "none", cachedValue, FALSE, condOrRefresh, Undef, VUndef)
             /\ UNCHANGED sPending

\* the callback of modelTo.findOne in the getter
HasOne_findOneCb(p, ans) ==
  /\ sPending' = sPending \ {p}
  /\ UNCHANGED <<sDef, sInst, sStore>>
  /\ IF ans.k = "err"
     THEN /\ sEv' = SEvent("findOneCb", "storage", VUndef, FALSE, "false", Undef, ans)
          /\ UNCHANGED sCache
     ELSE IF ans.k = "null"
     THEN /\ sEv' = SEvent("findOneCb", "none", VNull, FALSE, "false", Undef, ans)
          /\ UNCHANGED sCache
     ELSE IF HasOne_keyMatches(ans.r, sInst, sDef.keyFrom, sDef.keyTo)
     THEN /\ sCache' = resetCache(VRec(ans.r))
          /\ sEv' = SEvent("findOneCb", "none", VRec(ans.r), FALSE, "false", Undef, ans)
     ELSE /\ sEv' = SEvent("findOneCb", "400", VUndef, FALSE, "false", Undef, ans)
          /\ UNCHANGED sCache

----------------------------------------------------------------------------
(* BelongsTo / HasOne: create, update, destroy *)

\* targets one source may create
MaxTargets == 2

\* create, update and destroy calls on one source
MaxOps == 3

\* a storage call of create, update or destroy whose callback has not run
SPend(kind, model, where, op, data, target, newId) ==
  [kind |-> kind, model |-> model, where |-> where, op |-> op, data |-> data,
   target |-> target, newId |-> newId]

\* preventFkOverride(inst, data, fkProp): is an error returned
preventFkOverrideNever(inst, data, fkProp) == FALSE

preventFkOverride(inst, data, fkProp) ==
  /\ fkProp # Undef
  /\ data[fkProp] # Undef
  /\ ~idEquals(data[fkProp], inst[fkProp])

\* inst.updateAttributes(data): the record once the data is written to it
updateAttributes(inst, data) ==
  [f \in DOMAIN inst |-> IF f \in Fields /\ data[f] # Undef THEN data[f] ELSE inst[f]]

\* the table after the stored copy of a record is replaced
Replace(table, old, new) ==
  {IF x["id"] = old["id"] THEN new ELSE x : x \in table}

\* the table after the stored copy of a record is deleted
Delete(table, old) == {x \in table : x["id"] # old["id"]}

\* create whose query names the source's key property on the target
HasOne_createWrongKey(targetModelData) ==
  LET fk == sDef.keyTo
      pk == sDef.keyFrom
      d1 == [targetModelData EXCEPT ![fk] = sInst[pk]]
      query == applyScope(sDef, sInst, [NoWhere EXCEPT ![pk] = d1[fk]])
  IN /\ sNextId < MaxTargets
     /\ sNextId' = sNextId + 1
     /\ sPending' = sPending \cup
          {SPend("findOrCreate", sDef.modelTo, query, "create",
                 applyProperties(sDef, sInst, d1), NoRec, IdStr(sNextId + 1))}
     /\ sEv' = SEvent("create", "none", VUndef, FALSE, "false", Undef, VUndef)
     /\ UNCHANGED <<sDef, sInst, sCache, sStore>>

\* customer.profile.create(targetModelData, cb)
HasOne_create(targetModelData) ==
  LET fk == sDef.keyTo
      pk == sDef.keyFrom
      d1 == [targetModelData EXCEPT ![fk] = sInst[pk]]
      query == applyScope(sDef, sInst, [NoWhere EXCEPT ![fk] = d1[fk]])
  IN /\ sNextId < MaxTargets
     /\ sNextId' = sNextId + 1
     /\ sPending' = sPending \cup
          {SPend("findOrCreate", sDef.modelTo, query, "create",
                 applyProperties(sDef, sInst, d1), NoRec, IdStr(sNextId + 1))}
     /\ sEv' = SEvent("create", "none", VUndef, FALSE, "false", Undef, VUndef)
     /\ UNCHANGED <<sDef, sInst, sCache, sStore>>

\* the callback of modelTo.findOrCreate in create
HasOne_createCb(p, ans) ==
  /\ sPending' = sPending \ {p}
  /\ UNCHANGED <<sDef, sInst, sNextId>>
  /\ IF ans.k = "err"
     THEN /\ sEv' = SEvent("createCb", "storage", VUndef, FALSE, "false", Undef, VUndef)
          /\ UNCHANGED <<sCache, sStore>>
     ELSE IF ans.k = "created"
     THEN /\ sStore' = [sStore EXCEPT ![p.model] = @ \cup {ans.r}]
          /\ sCache' = resetCache(VRec(ans.r))
          /\ sEv' = SEvent("createCb", "none", VRec(ans.r), FALSE, "false", Undef, VUndef)
     ELSE /\ sEv' = SEvent("createCb", "cardinality", VUndef, FALSE, "false", Undef,
                           VRec(ans.r))
          /\ UNCHANGED <<sCache, sStore>>

\* the fetch callback of update and destroy, once the target is known
HasOne_fetched(op, targetModelData, targetModel, pend) ==
  IF targetModel.k # "rec"
  THEN /\ sEv' = SEvent(op \o "Cb", "empty", VUndef, FALSE, "false", Undef, VUndef)
       /\ sPending' = pend
  ELSE IF op = "update" /\ preventFkOverride(targetModel.r, targetModelData, sDef.keyTo)
  THEN /\ sEv' = SEvent("updateCb", "fk override", VUndef, FALSE, "false", Undef, targetModel)
       /\ sPending' = pend
  ELSE /\ sEv' = SEvent(op, "none", VUndef, FALSE, "false", Undef, VUndef)
       /\ sPending' = pend \cup
            {SPend(IF op = "update" THEN "updateAttributes" ELSE "destroy", sDef.modelTo,
                   NoWhere, op, targetModelData, targetModel.r, Undef)}

\* this.fetch(cb) of HasOne.update and HasOne.destroy: the accessor called
\* with the callback alone
HasOne_fetch(op, targetModelData) ==
  LET fk == sDef.keyTo
      pk == sDef.keyFrom
      cachedValue == getCache
      query == applyScope(sDef, sInst, [NoWhere EXCEPT ![fk] = sInst[pk]])
  IN /\ UNCHANGED <<sDef, sInst, sCache, sStore, sNextId>>
     /\ IF cachedValue.k = "undef"
        THEN /\ sPending' = sPending \cup
                  {SPend("fetch", sDef.modelTo, query, op, targetModelData, NoRec, Undef)}
             /\ sEv' = SEvent(op, "none", VUndef, FALSE, "false", Undef, VUndef)
        ELSE HasOne_fetched(op, targetModelData, cachedValue, sPending)

\* the callback of modelTo.findOne in the accessor, handing on to the fetch
\* callback of update or destroy
HasOne_fetchCb(p, ans) ==
  LET ok == ans.k = "rec" /\ HasOne_keyMatches(ans.r, sInst, sDef.keyFrom, sDef.keyTo)
  IN /\ UNCHANGED <<sDef, sInst, sStore, sNextId>>
     /\ sCache' = IF ok THEN resetCache(VRec(ans.r)) ELSE sCache
     /\ HasOne_fetched(p.op, p.data, IF ok THEN VRec(ans.r) ELSE VUndef, sPending \ {p})

\* customer.profile.update(targetModelData, cb)
HasOne_update(targetModelData) == HasOne_fetch("update", targetModelData)

\* customer.profile.destroy(cb)
HasOne_destroy == HasOne_fetch("destroy", NoRec)

\* the callback of targetModel.updateAttributes; the target is the record
\* the cache holds
Target_updateAttributesCb(p, ok) ==
  LET new == updateAttributes(p.target, p.data)
  IN /\ sPending' = sPending \ {p}
     /\ UNCHANGED <<sDef, sInst, sNextId>>
     /\ IF ok
        THEN /\ sStore' = [sStore EXCEPT ![p.target["model"]] = Replace(@, p.target, new)]
             /\ sCache' = IF sCache = VRec(p.target) THEN VRec(new) ELSE sCache
             /\ sEv' = SEvent("updateCb", "none", VRec(new), FALSE, "false", Undef,
                              VRec(p.target))
        ELSE /\ sEv' = SEvent("updateCb", "storage", VUndef, FALSE, "false", Undef,
                              VRec(p.target))
             /\ UNCHANGED <<sStore, sCache>>

\* the callback of targetModel.destroy in HasOne.destroy
HasOne_destroyCb(p, ok) ==
  /\ sPending' = sPending \ {p}
  /\ UNCHANGED <<sDef, sInst, sCache, sNextId>>
  /\ IF ok
     THEN /\ sStore' = [sStore EXCEPT ![p.target["model"]] = Delete(@, p.target)]
          /\ sEv' = SEvent("destroyCb", "none", VUndef, FALSE, "false", Undef, VRec(p.target))
     ELSE /\ sEv' = SEvent("destroyCb", "storage", VUndef, FALSE, "false", Undef,
                           VRec(p.target))
          /\ UNCHANGED sStore

\* the fetch callback of BelongsTo.update and BelongsTo.destroy, once the
\* target is known
BelongsTo_fetched(op, targetModelData, inst, pend) ==
  IF inst.k # "rec"
  THEN /\ sEv' = SEvent(op \o "Cb", "empty", VUndef, FALSE, "false", Undef, VUndef)
       /\ sPending' = pend
       /\ UNCHANGED sInst
  ELSE IF op = "update"
  THEN /\ UNCHANGED sInst
       /\ IF preventFkOverride(inst.r, targetModelData, sDef.keyTo)
          THEN /\ sEv' = SEvent("updateCb", "fk override", VUndef, FALSE, "false", Undef, inst)
               /\ sPending' = pend
          ELSE /\ sEv' = SEvent(op, "none", VUndef, FALSE, "false", Undef, VUndef)
               /\ sPending' = pend \cup
                    {SPend("updateAttributes", inst.r["model"], NoWhere, op, targetModelData,
                           inst.r, Undef)}
  ELSE /\ sInst' = [sInst EXCEPT ![sDef.keyFrom] = Null]
       /\ sEv' = SEvent(op, "none", VUndef, FALSE, "false", Undef, VUndef)
       /\ sPending' = pend \cup
            {SPend("save", sDef.modelFrom, NoWhere, op, NoRec, inst.r, Undef)}

\* this.fetch(options, cb) of BelongsTo.update and BelongsTo.destroy: the
\* accessor called with options in the place of condOrRefresh
BelongsTo_fetch(op, targetModelData, condOrRefresh) ==
  LET pk == sDef.keyTo
      fk == sDef.keyFrom
      discriminator == sDef.polymorphic.discriminator
      cachedValue == IF condOrRefresh = "false" THEN getCache ELSE VUndef
      query == applyScope(sDef, sInst, [NoWhere EXCEPT ![pk] = sInst[fk]])
  IN /\ UNCHANGED <<sDef, sCache, sStore, sNextId>>
     /\ IF sDef.polymorphic.on
           /\ (~NotNullish(sInst[discriminator]) \/ BelongsTo_modelTo = Undef)
        THEN /\ sEv' = SEvent(op, "throw", VUndef, FALSE, "false", Undef, VUndef)
             /\ UNCHANGED <<sPending, sInst>>
        ELSE IF cachedValue.k = "rec"
        THEN BelongsTo_fetched(op, targetModelData, cachedValue, sPending)
        ELSE /\ sPending' = sPending \cup
                  {SPend(IF NotNullish(sInst[fk]) THEN "fetch" ELSE "fetchTick",
                         BelongsTo_modelTo, query, op, targetModelData, NoRec, Undef)}
             /\ sEv' = SEvent(op, "none", VUndef, FALSE, "false", Undef, VUndef)
             /\ UNCHANGED sInst

\* the callback of modelTo.findOne in the accessor, or its process.nextTick,
\* handing on to the fetch callback of update or destroy
BelongsTo_fetchCb(p, ans) ==
  LET ok == /\ p.kind = "fetch"
            /\ ans.k = "rec"
            /\ BelongsTo_keyMatches(ans.r, sInst, sDef.keyTo, sDef.keyFrom)
  IN /\ UNCHANGED <<sDef, sStore, sNextId>>
     /\ sCache' = IF ok THEN resetCache(VRec(ans.r)) ELSE sCache
     /\ BelongsTo_fetched(p.op, p.data, IF ok THEN VRec(ans.r) ELSE VUndef, sPending \ {p})

\* order.customer.update(targetModelData, options, cb)
BelongsTo_update(targetModelData, condOrRefresh) ==
  BelongsTo_fetch("update", targetModelData, condOrRefresh)

\* order.customer.destroy(options, cb)
BelongsTo_destroy(condOrRefresh) == BelongsTo_fetch("destroy", NoRec, condOrRefresh)

\* the callback of modelInstance.save in BelongsTo.destroy
BelongsTo_destroySaveCb(p, ok) ==
  /\ sPending' = sPending \ {p}
  /\ sEv' = SEvent("destroyCb", IF ok THEN "none" ELSE "storage", VUndef, FALSE, "false",
                   Undef, VRec(p.target))
  /\ UNCHANGED <<sDef, sInst, sCache, sStore, sNextId>>

\* order.customer.create(targetModelData, cb); a polymorphic relation has no
\* modelTo to call create on
BelongsTo_create(targetModelData) ==
  IF sDef.modelTo = Undef
  THEN /\ sEv' = SEvent("create", "throw", VUndef, FALSE, "false", Undef, VUndef)
       /\ UNCHANGED <<sDef, sInst, sCache, sStore, sNextId, sPending>>
  ELSE /\ sNextId < MaxTargets
       /\ sNextId' = sNextId + 1
       /\ sPending' = sPending \cup
            {SPend("create", sDef.modelTo, NoWhere, "create",
                   applyProperties(sDef, sInst, targetModelData), NoRec, IdStr(sNextId + 1))}
       /\ sEv' = SEvent("create", "none", VUndef, FALSE, "false", Undef, VUndef)
       /\ UNCHANGED <<sDef, sInst, sCache, sStore>>

\* the callback of modelTo.create in BelongsTo.create
BelongsTo_createCb(p, ok, isNewRecord) ==
  LET targetModel == [p.data EXCEPT !["id"] = p.newId, !["model"] = p.model]
  IN /\ UNCHANGED <<sDef, sNextId>>
     /\ IF ~ok
        THEN /\ sPending' = sPending \ {p}
             /\ sEv' = SEvent("createCb", "storage", VUndef, FALSE, "false", Undef, VUndef)
             /\ UNCHANGED <<sInst, sCache, sStore>>
        ELSE /\ sStore' = [sStore EXCEPT ![p.model] = @ \cup {targetModel}]
             /\ sInst' = [sInst EXCEPT ![sDef.keyFrom] = targetModel[sDef.keyTo]]
             /\ IF isNewRecord
                THEN /\ sCache' = resetCache(VRec(targetModel))
                     /\ sPending' = sPending \ {p}
                     /\ sEv' = SEvent("createCb", "none", VRec(targetModel), FALSE, "false",
                                      Undef, VUndef)
                ELSE /\ sPending' = (sPending \ {p}) \cup
                          {SPend("save", sDef.modelFrom, NoWhere, "create", NoRec,
                                 targetModel, Undef)}
                     /\ sEv' = SEvent("created", "none", VUndef, FALSE, "false", Undef, VUndef)
                     /\ UNCHANGED sCache

\* the callback of modelInstance.save in BelongsTo.create
BelongsTo_createSaveCb(p, ok) ==
  /\ sPending' = sPending \ {p}
  /\ UNCHANGED <<sDef, sInst, sStore, sNextId>>
  /\ IF ok
     THEN /\ sCache' = resetCache(VRec(p.target))
          /\ sEv' = SEvent("createCb", "none", VRec(p.target), FALSE, "false", Undef, VUndef)
     ELSE /\ sEv' = SEvent("createCb", "storage", VUndef, FALSE, "false", Undef, VUndef)
          /\ UNCHANGED sCache

----------------------------------------------------------------------------
(* BelongsTo / HasOne: the accessor as the caller sees it *)

\* process.nextTick(cb): the handler runs with no arguments
S_tick(p) ==
  /\ UNCHANGED <<sOthers, sNextId, sOps>>
  /\ sPending' = sPending \ {p}
  /\ sEv' = SEvent("tick", "none", VUndef, FALSE, "false", Undef, VUndef)
  /\ UNCHANGED <<sDef, sInst, sCache, sStore>>

S_setter ==
  \E nv \in SetterValues :
    /\ UNCHANGED <<sOthers, sNextId, sOps>>
    /\ IF sDef.type = "belongsTo" THEN BelongsTo_setter(nv) ELSE HasOne_setter(nv)

S_getter ==
  \E r \in {"false", "true", "cond"} :
    /\ UNCHANGED <<sOthers, sNextId, sOps>>
    /\ IF sDef.type = "belongsTo" THEN BelongsTo_getter(r) ELSE HasOne_getter(r)

S_findOneCb ==
  \E p \in sPending :
    /\ p.kind = "findOne"
    /\ UNCHANGED <<sOthers, sNextId, sOps>>
    /\ \E ans \in FindOneAnswers(sStore[p.model], p.where) :
         IF sDef.type = "belongsTo" THEN BelongsTo_findOneCb(p, ans)
         ELSE HasOne_findOneCb(p, ans)

S_nextTick == \E p \in sPending : p.kind = "tick" /\ S_tick(p)

S_syncGetter ==
  /\ sEv' = SEvent("syncGetter", "none", BelongsTo_syncGetter, FALSE, "false", Undef, VUndef)
  /\ UNCHANGED <<sDef, sInst, sCache, sStore, sPending>>
  /\ UNCHANGED <<sOthers, sNextId, sOps>>

\* raw key values a caller may hand to the accessor
RawValues == {"1", "2"}

S_rawSetter ==
  /\ sDef.type = "belongsTo"
  /\ \E v \in RawValues : BelongsTo_rawSetter(v)
  /\ UNCHANGED <<sOthers, sNextId, sOps>>

\* data a caller may hand to create and update
SCreateData == {Rec(Undef, Undef, Undef, tag) : tag \in {"a", "b"}}

SUpdateData ==
  {[Rec(Undef, Undef, Undef, "b") EXCEPT ![sDef.keyTo] = key] : key \in {Undef, "1", "2"}}

S_create ==
  /\ Cardinality(sPending) < MaxPending
  /\ sOps < MaxOps
  /\ sOps' = sOps + 1
  /\ \E targetModelData \in SCreateData :
       IF sDef.type = "belongsTo" THEN BelongsTo_create(targetModelData)
       ELSE HasOne_create(targetModelData)
  /\ UNCHANGED sOthers

S_createCb ==
  /\ UNCHANGED sOps
  /\ \E p \in sPending :
       /\ p.kind \in {"create", "findOrCreate"}
       /\ IF sDef.type = "belongsTo"
          THEN \E ok, isNewRecord \in BOOLEAN : BelongsTo_createCb(p, ok, isNewRecord)
          ELSE \E ans \in FindOrCreateAnswers(sStore[p.model], p.where,
                            [p.data EXCEPT !["id"] = p.newId, !["model"] = p.model]) :
                 HasOne_createCb(p, ans)
  /\ UNCHANGED sOthers

S_update ==
  /\ Cardinality(sPending) < MaxPending
  /\ sOps < MaxOps
  /\ sOps' = sOps + 1
  /\ \E targetModelData \in SUpdateData :
       IF sDef.type = "belongsTo"
       THEN \E r \in {"false", "true"} : BelongsTo_update(targetModelData, r)
       ELSE HasOne_update(targetModelData)
  /\ UNCHANGED sOthers

S_destroy ==
  /\ Cardinality(sPending) < MaxPending
  /\ sOps < MaxOps
  /\ sOps' = sOps + 1
  /\ IF sDef.type = "belongsTo"
     THEN \E r \in {"false", "true"} : BelongsTo_destroy(r)
     ELSE HasOne_destroy
  /\ UNCHANGED sOthers

S_fetchCb ==
  /\ UNCHANGED sOps
  /\ \E p \in sPending :
       /\ p.kind \in {"fetch", "fetchTick"}
       /\ \E ans \in IF p.kind = "fetch" THEN FindOneAnswers(sStore[p.model], p.where)
                     ELSE {VUndef} :
            IF sDef.type = "belongsTo" THEN BelongsTo_fetchCb(p, ans)
            ELSE sInst' = sInst /\ HasOne_fetchCb(p, ans)
  /\ UNCHANGED sOthers

S_updateAttributesCb ==
  /\ UNCHANGED sOps
  /\ \E p \in sPending :
       /\ p.kind = "updateAttributes"
       /\ \E ok \in {o \in BOOLEAN : o => \E x \in sStore[p.target["model"]] :
                                            x["id"] = p.target["id"]} :
            Target_updateAttributesCb(p, ok)
  /\ UNCHANGED sOthers

S_destroyCb ==
  /\ UNCHANGED sOps
  /\ \E p \in sPending :
       /\ p.kind = "destroy"
       /\ \E ok \in BOOLEAN : HasOne_destroyCb(p, ok)
  /\ UNCHANGED sOthers

S_saveCb ==
  /\ UNCHANGED sOps
  /\ \E p \in sPending :
       /\ p.kind = "save"
       /\ \E ok \in BOOLEAN :
            IF p.op = "create" THEN BelongsTo_createSaveCb(p, ok)
            ELSE BelongsTo_destroySaveCb(p, ok)
  /\ UNCHANGED sOthers

SNext ==
  \/ S_setter
  \/ S_getter
  \/ S_findOneCb
  \/ S_nextTick
  \/ S_syncGetter
  \/ S_rawSetter

\* the steps of create, update and destroy
SCrudNext ==
  \/ S_create
  \/ S_createCb
  \/ S_update
  \/ S_destroy
  \/ S_fetchCb
  \/ S_updateAttributesCb
  \/ S_destroyCb
  \/ S_saveCb

InitSingular == SInit /\ HIdle /\ EIdle /\ RIdle /\ DIdle /\ OIdle /\ PIdle /\ QIdle

SpecSingular == InitSingular /\ [][SNext]_vars

SpecSingularCrud == InitSingular /\ [][SCrudNext]_vars

----------------------------------------------------------------------------
(* HasMany / HasManyThrough: construction *)

\* ids the storage has yet to generate
MaxCreated == 2


HEvent(op, err, val, arg, resp, row, flag) ==
  [op |-> op, err |-> err, val |-> val, arg |-> arg, resp |-> resp, row |-> row,
   flag |-> flag]

HPend(kind, where, data, arg, inst, row, newId) ==
  [kind |-> kind, where |-> where, data |-> data, arg |-> arg, inst |-> inst,
   row |-> row, newId |-> newId]

\* the relation cache of a to-many relation: undefined or a list of records
NoList == [k |-> "undef", l |-> <<>>]
ListOf(l) == [k |-> "list", l |-> l]

\* the belongsTo relations declared on the through model AuthorBook
ThroughRelations ==
  << [type |-> "belongsTo", modelTo |-> "Author", keyTo |-> "id", keyFrom |-> "fk"],
     [type |-> "belongsTo", modelTo |-> "Book", keyTo |-> "id", keyFrom |-> "fk2"] >>

HDefs ==
  {Definition("hasMany", "Author", "Book", "id", "fk", NoPoly, sc, pr) :
     sc \in {NoScope, TagScope}, pr \in {NoProps, ListProps}}
  \cup {Definition("hasMany", "Author", "Book", "id", "fk", Poly, NoScope, NoProps)}
  \cup {[Definition("hasMany", "Author", "Book", "id", "fk", NoPoly, sc, pr)
           EXCEPT !.modelThrough = "AuthorBook", !.keyThrough = "fk2"] :
          sc \in {NoScope, TagScope}, pr \in {NoProps, ListProps}}

HInitTargets == {Rec("Book", "1", "1", "a"), Rec("Book", "2", "2", "b")}

HInitJoins == {[Rec("AuthorBook", "1", "2", "a") EXCEPT !["fk2"] = "1"]}

HInit ==
  /\ hDef \in HDefs
  /\ \E key \in {"1", Undef, Null} :
       hInst = [Rec("Author", "1", Undef, "a") EXCEPT ![hDef.keyFrom] = key]
  /\ hCache = NoList
  /\ hTargets = HInitTargets
  /\ hJoins = HInitJoins
  /\ hNextId = 0
  /\ hCreates = {}
  /\ hPending = {}
  /\ hEv = HEvent("init", "none", VUndef, Undef, VUndef, NoRec, Undef)

IsThrough == hDef.modelThrough # Undef

\* modelTo.definition.idName()
idName == "id"

----------------------------------------------------------------------------
(* HasMany scope methods *)

\* addToCache that appends whatever the cache holds
addToCacheAppends(cache, inst) ==
  ListOf(Append(IF cache.k = "undef" THEN <<>> ELSE cache.l, inst))

\* HasMany.prototype.addToCache
addToCache(cache, inst) ==
  LET c == IF cache.k = "undef" THEN <<>> ELSE cache.l
      hits == {i \in 1..Len(c) : idEquals(c[i][idName], inst[idName])}
  IN IF hits # {}
     THEN ListOf([c EXCEPT ![CHOOSE i \in hits : \A j \in hits : i <= j] = inst])
     ELSE ListOf(Append(c, inst))

\* the check of the resolved record's foreign key against the source's key
HasMany_fkMatchesAlways(inst, modelInstance, fk, pk) == TRUE

HasMany_fkMatches(inst, modelInstance, fk, pk) ==
  NotNullish(inst[fk]) /\ idEquals(inst[fk], modelInstance[pk])

\* author.books.findById(fkId, cb)
HasMany_findById(fkId) ==
  LET fk == hDef.keyTo
      pk == hDef.keyFrom
      where == [NoWhere EXCEPT ![idName] = fkId, ![fk] = hInst[pk]]
  IN /\ Cardinality(hPending) < MaxPending
     /\ hPending' = hPending \cup
          {IF where[fk] = Undef
           THEN HPend("tick", NoWhere, NoRec, fkId, NoRec, NoRec, Undef)
           ELSE HPend("findOne", applyScope(hDef, hInst, where), NoRec, fkId, NoRec,
                      NoRec, Undef)}
     /\ hEv' = HEvent("findById", "none", VUndef, Undef, VUndef, NoRec, Undef)
     /\ UNCHANGED <<hDef, hInst, hCache, hTargets, hJoins, hNextId>>

\* the callback of modelTo.findOne in findById
HasMany_findOneCb(p, ans) ==
  /\ hPending' = hPending \ {p}
  /\ UNCHANGED <<hDef, hInst, hCache, hTargets, hJoins, hNextId>>
  /\ hEv' =
       IF ans.k = "err"
       THEN HEvent("findOneCb", "storage", VUndef, p.arg, ans, NoRec, Undef)
       ELSE IF ans.k = "null"
       THEN HEvent("findOneCb", "404", VUndef, p.arg, ans, NoRec, Undef)
       ELSE IF HasMany_fkMatches(ans.r, hInst, hDef.keyTo, hDef.keyFrom)
       THEN HEvent("findOneCb", "none", VRec(ans.r), p.arg, ans, NoRec, Undef)
       ELSE HEvent("findOneCb", "400", VUndef, p.arg, ans, NoRec, Undef)

\* author.books.updateById(fkId, data, cb): findById, then its callback
HasMany_updateById(fkId, data) ==
  LET fk == hDef.keyTo
      pk == hDef.keyFrom
      where == [NoWhere EXCEPT ![idName] = fkId, ![fk] = hInst[pk]]
  IN /\ Cardinality(hPending) < MaxPending
     /\ hPending' = hPending \cup
          {IF where[fk] = Undef
           THEN HPend("updateTick", NoWhere, data, fkId, NoRec, NoRec, Undef)
           ELSE HPend("updateFind", applyScope(hDef, hInst, where), data, fkId, NoRec,
                      NoRec, Undef)}
     /\ hEv' = HEvent("updateById", "none", VUndef, fkId, VUndef, NoRec, Undef)
     /\ UNCHANGED <<hDef, hInst, hCache, hTargets, hJoins, hNextId>>

\* process.nextTick(cb) of findById under updateById: the callback gets no
\* instance, and reading from it throws a TypeError
HasMany_updateTick(p) ==
  /\ hPending' = hPending \ {p}
  /\ hEv' = HEvent("updateThrow", "TypeError", VUndef, p.arg, VUndef, NoRec, Undef)
  /\ UNCHANGED <<hDef, hInst, hCache, hTargets, hJoins, hNextId>>

\* the callback of modelTo.findOne in findById, handing on to the callback of
\* updateById
HasMany_updateFindCb(p, ans) ==
  LET fk == hDef.keyTo
      found == /\ ans.k = "rec"
               /\ HasMany_fkMatches(ans.r, hInst, hDef.keyTo, hDef.keyFrom)
  IN /\ UNCHANGED <<hDef, hInst, hCache, hTargets, hJoins, hNextId>>
     /\ IF found /\ ~preventFkOverride(ans.r, p.data, fk)
        THEN /\ hPending' = (hPending \ {p}) \cup
                  {HPend("updateAttributes", NoWhere, p.data, p.arg, ans.r, NoRec, Undef)}
             /\ hEv' = HEvent("updateFound", "none", VUndef, p.arg, ans, NoRec, Undef)
        ELSE /\ hPending' = hPending \ {p}
             /\ hEv' = HEvent("updateCb",
                              IF ans.k = "err" THEN "storage"
                              ELSE IF ans.k = "null" THEN "404"
                              ELSE IF ~found THEN "400" ELSE "fk override",
                              VUndef, p.arg, ans, NoRec, Undef)

\* the callback of inst.updateAttributes in updateById
HasMany_updateAttributesCb(p, ok) ==
  LET new == updateAttributes(p.inst, p.data)
  IN /\ hPending' = hPending \ {p}
     /\ UNCHANGED <<hDef, hInst, hCache, hJoins, hNextId>>
     /\ IF ok
        THEN /\ hTargets' = Replace(hTargets, p.inst, new)
             /\ hEv' = HEvent("updateCb", "none", VRec(new), p.arg, VRec(p.inst), NoRec, Undef)
        ELSE /\ hEv' = HEvent("updateCb", "storage", VUndef, p.arg, VRec(p.inst), NoRec,
                              Undef)
             /\ UNCHANGED hTargets

\* fkAndProps of create that keeps the foreign key the caller supplied
HasMany_fkAndPropsKeepsFk(item) == applyProperties(hDef, hInst, item)

\* fkAndProps of create
HasMany_fkAndProps(item) ==
  applyProperties(hDef, hInst, [item EXCEPT ![hDef.keyTo] = hInst[hDef.keyFrom]])

\* author.books.create(targetModelData, cb)
HasMany_create(targetModelData) ==
  /\ Cardinality(hPending) < MaxPending
  /\ hNextId < MaxCreated
  /\ hNextId' = hNextId + 1
  /\ hPending' = hPending \cup
       {HPend("create", NoWhere, HasMany_fkAndProps(targetModelData), Undef, NoRec,
              NoRec, IdStr(hNextId + 1))}
  /\ hEv' = HEvent("create", "none", VUndef, Undef, VUndef, NoRec, Undef)
  /\ UNCHANGED <<hDef, hInst, hCache, hTargets, hJoins>>

\* the callback of modelTo.create in create
HasMany_createCb(p, ok) ==
  LET targetModel == [p.data EXCEPT !["id"] = p.newId, !["model"] = hDef.modelTo]
  IN /\ hPending' = hPending \ {p}
     /\ UNCHANGED <<hDef, hInst, hJoins, hNextId>>
     /\ IF ok
        THEN /\ hTargets' = hTargets \cup {targetModel}
             /\ hCache' = addToCache(hCache, targetModel)
             /\ hEv' = HEvent("createCb", "none", VRec(targetModel), p.newId, VUndef,
                              NoRec, Undef)
        ELSE /\ hEv' = HEvent("createCb", "storage", VUndef, p.newId, VUndef, NoRec, Undef)
             /\ UNCHANGED <<hTargets, hCache>>

----------------------------------------------------------------------------
(* HasManyThrough scope methods *)

findBelongsTo(relations, modelTo, keyTo) ==
  LET found == SelectSeq(relations,
                 LAMBDA rel : /\ rel.type = "belongsTo"
                              /\ rel.modelTo = modelTo
                              /\ (keyTo = Undef \/ rel.keyTo = keyTo))
  IN [i \in 1..Len(found) |-> found[i].keyFrom]

\* array[0] of JavaScript
First(seq) == IF seq = <<>> THEN Undef ELSE seq[1]

\* a sort that leaves the keys in the order of declaration
sortKeyToFirstKeeps(keys, keyTo, first) == keys

\* keys.sort(function(fk1, fk2) { return (keyTo === fk1) ? -1 : 1; }) on at
\* most two keys.  Which of the two the engine hands over as fk1 is the
\* engine's choice: first = 1 for compare(keys[1], keys[2]), first = 2 for
\* compare(keys[2], keys[1]); a negative answer puts fk1 in front.
sortKeyToFirst(keys, keyTo, first) ==
  CASE Len(keys) < 2 -> keys
    [] Len(keys) = 2 /\ first = 1 ->
         IF keyTo = keys[1] THEN keys ELSE <<keys[2], keys[1]>>
    [] Len(keys) = 2 /\ first = 2 ->
         IF keyTo = keys[2] THEN <<keys[2], keys[1]>> ELSE keys

\* throughKeys for a through model that declares the given relations
throughKeysOf(relations, definition, first) ==
  LET pk2 == idName
  IN IF definition.polymorphic.on
     THEN <<definition.keyTo,
            IF definition.polymorphic.invert THEN definition.polymorphic.foreignKey
            ELSE definition.keyThrough>>
     ELSE IF definition.modelFrom = definition.modelTo
     THEN sortKeyToFirst(findBelongsTo(relations, definition.modelTo, pk2),
                         definition.keyTo, first)
     ELSE <<First(findBelongsTo(relations, definition.modelFrom, definition.keyFrom)),
            First(findBelongsTo(relations, definition.modelTo, pk2))>>

\* throughKeys of the relations through AuthorBook
throughKeys(definition) == throughKeysOf(ThroughRelations, definition, 1)

\* the join-row query of exists and add: both keys, then the scope
HasManyThrough_query(acInst) ==
  LET keys == throughKeys(hDef)
  IN applyScope(hDef, hInst,
       [NoWhere EXCEPT ![keys[1]] = hInst[hDef.keyFrom], ![keys[2]] = acInst])

\* What modelThrough.count may answer: an error, or the number of rows the
\* where clause selects, with one of them when there is any.
CountAnswers(table, where) ==
  LET answer(rows) ==
        IF rows = {} THEN {[k |-> "n", n |-> 0, row |-> NoRec]}
        ELSE {[k |-> "n", n |-> Cardinality(rows), row |-> r] : r \in rows}
  IN {[k |-> "err", n |-> 0, row |-> NoRec]}
       \cup answer({x \in table : Matches(x, where)})
       \cup answer({x \in table : MatchesLoose(x, where)})

\* author.books.exists(acInst, cb), called by the user or by findById
HasManyThrough_exists(acInst, caller) ==
  /\ Cardinality(hPending) < MaxPending
  /\ hPending' = hPending \cup
       {HPend(caller, HasManyThrough_query(acInst), NoRec, acInst, NoRec, NoRec, Undef)}
  /\ hEv' = HEvent(caller, "none", VUndef, Undef, VUndef, NoRec, Undef)
  /\ UNCHANGED <<hDef, hInst, hCache, hTargets, hJoins, hNextId>>

\* the callback of modelThrough.count in exists: cb(err, ac > 0)
HasManyThrough_existsCb(p, ans) ==
  /\ hPending' = hPending \ {p}
  /\ hEv' = HEvent("existsCb", IF ans.k = "err" THEN "storage" ELSE "none", VUndef, p.arg,
                   VUndef, ans.row, IF ans.k = "n" /\ ans.n > 0 THEN "true" ELSE "false")
  /\ UNCHANGED <<hDef, hInst, hCache, hTargets, hJoins, hNextId>>

\* author.books.findById(fkId, cb): the callback of self.exists
HasManyThrough_findByIdExistsCb(p, ans) ==
  /\ UNCHANGED <<hDef, hInst, hCache, hTargets, hJoins, hNextId>>
  /\ IF ans.k = "err"
     THEN /\ hPending' = hPending \ {p}
          /\ hEv' = HEvent("findById.existsCb", "storage", VUndef, p.arg, VUndef, NoRec,
                           "false")
     ELSE IF ans.n = 0
     THEN /\ hPending' = hPending \ {p}
          /\ hEv' = HEvent("findById.existsCb", "404", VUndef, p.arg, VUndef, NoRec, "false")
     ELSE /\ hPending' = (hPending \ {p}) \cup
               {HPend("modelTo.findById", [NoWhere EXCEPT ![idName] = p.arg], NoRec, p.arg,
                      NoRec, ans.row, Undef)}
          /\ hEv' = HEvent("findById.existsCb", "none", VUndef, p.arg, VUndef, ans.row,
                           "true")

\* author.books.findById(fkId, cb): the callback of modelTo.findById
HasManyThrough_findByIdCb(p, ans) ==
  /\ hPending' = hPending \ {p}
  /\ UNCHANGED <<hDef, hInst, hCache, hTargets, hJoins, hNextId>>
  /\ hEv' =
       IF ans.k = "err"
       THEN HEvent("findByIdCb", "storage", VUndef, p.arg, ans, p.row, Undef)
       ELSE IF ans.k = "null"
       THEN HEvent("findByIdCb", "404", VUndef, p.arg, ans, p.row, Undef)
       ELSE HEvent("findByIdCb", "none", VRec(ans.r), p.arg, ans, p.row, Undef)

\* author.books.add(acInst, cb): acInst is a target record (isInst) or its id
HasManyThrough_add(acInst, isInst) ==
  LET keys == throughKeys(hDef)
      pk2 == idName
      id == IF isInst THEN acInst[pk2] ELSE acInst
      d0 == [NoRec EXCEPT ![keys[1]] = hInst[hDef.keyFrom], ![keys[2]] = id]
      data == applyProperties(hDef, hInst, d0)
  IN /\ Cardinality(hPending) < MaxPending
     /\ hNextId < MaxCreated
     /\ hNextId' = hNextId + 1
     /\ hPending' = hPending \cup
          {HPend("findOrCreate", HasManyThrough_query(id), data, id,
                 IF isInst THEN acInst ELSE NoRec, NoRec, IdStr(hNextId + 1))}
     /\ hEv' = HEvent("add", "none", VUndef, Undef, VUndef, NoRec, Undef)
     /\ UNCHANGED <<hDef, hInst, hCache, hTargets, hJoins>>

\* the callback of modelThrough.findOrCreate in add
HasManyThrough_addCb(p, ans) ==
  /\ hPending' = hPending \ {p}
  /\ UNCHANGED <<hDef, hInst, hTargets, hNextId>>
  /\ hJoins' = IF ans.k = "created" THEN hJoins \cup {ans.r} ELSE hJoins
  /\ hCache' = IF ans.k # "err" /\ p.inst # NoRec THEN addToCache(hCache, p.inst)
               ELSE hCache
  /\ hEv' = IF ans.k = "err"
            THEN HEvent("addCb", "storage", VUndef, p.arg, VUndef, NoRec, Undef)
            ELSE HEvent("addCb", "none", VRec(ans.r), p.arg, VUndef, ans.r, ans.k)

\* HasMany.prototype.removeFromCache: the first cached record with the id goes
removeFromCache(cache, id) ==
  IF cache.k = "undef" THEN cache
  ELSE LET hits == {i \in 1..Len(cache.l) : idEquals(cache.l[i][idName], id)}
           first == CHOOSE i \in hits : \A j \in hits : i <= j
       IN IF hits = {} THEN cache
          ELSE ListOf([i \in 1..(Len(cache.l) - 1) |->
                         IF i < first THEN cache.l[i] ELSE cache.l[i + 1]])

\* What modelThrough.deleteAll may answer: an error with nothing deleted, or
\* the rows the where clause selects, which it has deleted.
DeleteAllAnswers(table, where) ==
  {[k |-> "err", rows |-> {}]}
    \cup {[k |-> "ok", rows |-> {x \in table : Matches(x, where)}]}
    \cup {[k |-> "ok", rows |-> {x \in table : MatchesLoose(x, where)}]}

\* author.books.remove(acInst, cb), called by the user or by destroyById
HasManyThrough_remove(acInst, caller) ==
  /\ Cardinality(hPending) < MaxPending
  /\ hPending' = hPending \cup
       {HPend(caller, HasManyThrough_query(acInst), NoRec, acInst, NoRec, NoRec, Undef)}
  /\ hEv' = HEvent(caller, "none", VUndef, acInst, VUndef, NoRec, Undef)
  /\ UNCHANGED <<hDef, hInst, hCache, hTargets, hJoins, hNextId>>

\* the callback of modelThrough.deleteAll in remove
HasManyThrough_removeCb(p, ans) ==
  /\ hPending' = hPending \ {p}
  /\ UNCHANGED <<hDef, hInst, hTargets, hNextId>>
  /\ hJoins' = hJoins \ ans.rows
  /\ hCache' = IF ans.k = "err" THEN hCache ELSE removeFromCache(hCache, p.arg)
  /\ hEv' = HEvent("removeCb", IF ans.k = "err" THEN "storage" ELSE "none", VUndef, p.arg,
                   VUndef, NoRec, Undef)

\* author.books.destroyById(fkId, cb): the callback of self.exists
HasManyThrough_destroyByIdExistsCb(p, ans) ==
  /\ UNCHANGED <<hDef, hInst, hCache, hTargets, hJoins, hNextId>>
  /\ IF ans.k = "err"
     THEN /\ hPending' = hPending \ {p}
          /\ hEv' = HEvent("destroyById.existsCb", "storage", VUndef, p.arg, VUndef, NoRec,
                           "false")
     ELSE IF ans.n = 0
     THEN /\ hPending' = hPending \ {p}
          /\ hEv' = HEvent("destroyById.existsCb", "404", VUndef, p.arg, VUndef, NoRec,
                           "false")
     ELSE /\ hPending' = (hPending \ {p}) \cup
               {HPend("destroyById.remove", HasManyThrough_query(p.arg), NoRec, p.arg,
                      NoRec, ans.row, Undef)}
          /\ hEv' = HEvent("destroyById.existsCb", "none", VUndef, p.arg, VUndef, ans.row,
                           "true")

\* author.books.destroyById(fkId, cb): the callback of self.remove
HasManyThrough_destroyByIdRemoveCb(p, ans) ==
  /\ UNCHANGED <<hDef, hInst, hTargets, hNextId>>
  /\ hJoins' = hJoins \ ans.rows
  /\ hCache' = IF ans.k = "err" THEN hCache ELSE removeFromCache(hCache, p.arg)
  /\ IF ans.k = "err"
     THEN /\ hPending' = hPending \ {p}
          /\ hEv' = HEvent("destroyById.removeCb", "storage", VUndef, p.arg, VUndef, NoRec,
                           Undef)
     ELSE /\ hPending' = (hPending \ {p}) \cup
               {HPend("modelTo.deleteById", [NoWhere EXCEPT ![idName] = p.arg], NoRec,
                      p.arg, NoRec, p.row, Undef)}
          /\ hEv' = HEvent("destroyById.removeCb", "none", VUndef, p.arg, VUndef, NoRec,
                           Undef)

\* author.books.destroyById(fkId, cb): the callback of modelTo.deleteById
HasManyThrough_destroyByIdCb(p, ok) ==
  /\ hPending' = hPending \ {p}
  /\ UNCHANGED <<hDef, hInst, hCache, hJoins, hNextId>>
  /\ hTargets' = IF ok THEN {t \in hTargets : t[idName] # p.arg} ELSE hTargets
  /\ hEv' = HEvent("destroyByIdCb", IF ok THEN "none" ELSE "storage", VUndef, p.arg, VUndef,
                   p.row, Undef)

----------------------------------------------------------------------------
(* HasManyThrough.prototype.create *)

\* one item of a create call: its data, the target made from it, how far its
\* createRelation went and the error of its join row
TItem(data, to, step, e) == [data |-> data, to |-> to, step |-> step, e |-> e]

\* author.books.create(data, cb): data is one item, or an array of items
HasManyThrough_create(data, isArray) ==
  /\ hNextId + Len(data) <= MaxCreated
  /\ hNextId' = hNextId + Len(data)
  /\ hCreates' = hCreates \cup
       {[call |-> IdStr(hNextId + 1), isArray |-> isArray, stage |-> "create",
         reported |-> FALSE,
         items |-> [i \in 1..Len(data) |->
                      TItem(data[i], [data[i] EXCEPT !["id"] = IdStr(hNextId + i),
                                                     !["model"] = hDef.modelTo],
                            "create", "none")]]}
  /\ hEv' = HEvent("create", "none", VUndef, Undef, VUndef, NoRec, Undef)
  /\ UNCHANGED <<hDef, hInst, hCache, hTargets, hJoins>>

\* the join row createRelation asks for, and the filter it looks it up with
CreateRelation_d(to) ==
  LET keys == throughKeys(hDef)
      d == applyProperties(hDef, hInst,
             [NoRec EXCEPT ![keys[1]] = hInst[hDef.keyFrom], ![keys[2]] = to[idName]])
  IN [d EXCEPT !["id"] = to[idName], !["model"] = hDef.modelThrough]

CreateRelation_filter(to) == HasManyThrough_query(to[idName])

\* the callback of modelTo.create: createRelation is started for every target
HasManyThrough_createCb(c, ok) ==
  /\ UNCHANGED <<hDef, hInst, hCache, hJoins, hNextId>>
  /\ IF ok
     THEN /\ hTargets' = hTargets \cup {c.items[i].to : i \in 1..Len(c.items)}
          /\ hCreates' = (hCreates \ {c}) \cup
               {[c EXCEPT !.stage = "relations",
                          !.items = [i \in 1..Len(c.items) |->
                                       [c.items[i] EXCEPT !.step = "findOrCreate"]]]}
          /\ hEv' = HEvent("created", "none", VUndef, c.call, VUndef, NoRec, Undef)
     ELSE /\ hCreates' = hCreates \ {c}
          /\ hEv' = HEvent("createCb", "storage", VUndef, c.call, VUndef, NoRec, Undef)
          /\ UNCHANGED hTargets

\* an item is finished when its join row is there ("done"), or when it failed
\* and the destroy of its target has answered: "failed" with the target gone,
\* "left" with the target still in storage
ItemsFinished(items) ==
  \A i \in 1..Len(items) : items[i].step \in {"done", "failed", "left"}

\* next that tells the handler of an array call about every item
CreateRelation_nextEach(c, items, i) ==
  LET err == items[i].e
  IN /\ hCreates' = (hCreates \ {c}) \cup
          (IF ~c.isArray \/ ItemsFinished(items) THEN {}
           ELSE {[c EXCEPT !.items = items, !.reported = TRUE]})
     /\ hEv' = HEvent("createCb", err, IF err = "none" THEN VRec(items[i].to) ELSE VUndef,
                      c.call, IF err = "none" THEN VUndef ELSE VRec(items[i].to),
                      IF items[i].step = "left" THEN items[i].to ELSE NoRec,
                      IF c.isArray THEN "array" ELSE "item")

\* next(err, to) of createRelation: the handler itself for one item, the
\* iterator callback of async.map for an array
CreateRelation_next(c, items, i) ==
  LET err == items[i].e
      left == IF items[i].step = "left" THEN items[i].to ELSE NoRec
      failed == IF err = "none" THEN VUndef ELSE VRec(items[i].to)
  IN /\ hCreates' = (hCreates \ {c}) \cup
          (IF ~c.isArray \/ ItemsFinished(items) THEN {}
           ELSE {[c EXCEPT !.items = items, !.reported = c.reported \/ err # "none"]})
     /\ hEv' = IF ~c.isArray
               THEN HEvent("createCb", err, IF err = "none" THEN VRec(items[i].to) ELSE VUndef,
                           c.call, failed, left, "item")
               ELSE IF c.reported
               THEN HEvent("next", err, VUndef, c.call, failed, left, "ignored")
               ELSE IF err # "none"
               THEN HEvent("createCb", err, VUndef, c.call, failed, left, "array")
               ELSE IF ItemsFinished(items)
               THEN HEvent("createCb", "none", VUndef, c.call, VUndef, NoRec, "array")
               ELSE HEvent("next", "none", VUndef, c.call, VUndef, NoRec, "waiting")

\* createRelation whose failed join row leaves the target in place
CreateRelation_cbNoUndo(c, i, ans) ==
  LET to == c.items[i].to
      items == [c.items EXCEPT ![i] = [@ EXCEPT !.step = IF ans.k = "err" THEN "failed"
                                                          ELSE "done",
                                               !.e = IF ans.k = "err" THEN "storage"
                                                     ELSE "none"]]
  IN /\ UNCHANGED <<hDef, hInst, hTargets, hNextId>>
     /\ hJoins' = IF ans.k = "created" THEN hJoins \cup {ans.r} ELSE hJoins
     /\ hCache' = IF ans.k = "err" THEN hCache ELSE addToCache(hCache, to)
     /\ CreateRelation_next(c, items, i)

\* the callback of modelThrough.findOrCreate in createRelation
CreateRelation_cb(c, i, ans) ==
  LET to == c.items[i].to
  IN /\ UNCHANGED <<hDef, hInst, hTargets, hNextId>>
     /\ IF ans.k = "err"
        THEN /\ hCreates' = (hCreates \ {c}) \cup
                  {[c EXCEPT !.items[i] = [@ EXCEPT !.step = "undo", !.e = "storage"]]}
             /\ hEv' = HEvent("undo", "none", VUndef, c.call, VUndef, NoRec, Undef)
             /\ UNCHANGED <<hJoins, hCache>>
        ELSE /\ hJoins' = IF ans.k = "created" THEN hJoins \cup {ans.r} ELSE hJoins
             /\ hCache' = addToCache(hCache, to)
             /\ CreateRelation_next(c, [c.items EXCEPT ![i] = [@ EXCEPT !.step = "done"]], i)

\* the callback of to.destroy, which hands on the join row's error whatever
\* the destroy answered
CreateRelation_undoCb(c, i, ok) ==
  /\ UNCHANGED <<hDef, hInst, hCache, hJoins, hNextId>>
  /\ hTargets' = IF ok THEN {t \in hTargets : t["id"] # c.items[i].to["id"]} ELSE hTargets
  /\ CreateRelation_next(c, [c.items EXCEPT ![i] = [@ EXCEPT !.step = IF ok THEN "failed"
                                                                      ELSE "left"]], i)

----------------------------------------------------------------------------
(* HasMany / HasManyThrough: the scope methods as the caller sees them *)

\* ids a caller may ask for
HIds == {"1", "9"} \cup {r["id"] : r \in hTargets \ HInitTargets}

\* target records a caller may hand to add
HAddInsts == {r \in hTargets : r["id"] = "1"}

\* data a caller may hand to create
HCreateData == {Rec(Undef, Undef, fk, tag) : fk \in {Undef, "2"}, tag \in {"a", "b"}}

H_findById ==
  /\ UNCHANGED <<hOthers, hCreates>>
  /\ \E fkId \in HIds :
       IF IsThrough THEN HasManyThrough_exists(fkId, "findById") ELSE HasMany_findById(fkId)

H_findOneCb ==
  \E p \in hPending :
    /\ p.kind = "findOne"
    /\ UNCHANGED <<hOthers, hCreates>>
    /\ \E ans \in FindOneAnswers(hTargets, p.where) : HasMany_findOneCb(p, ans)

\* process.nextTick(cb): the handler runs with no arguments
H_nextTick ==
  \E p \in hPending :
    /\ p.kind = "tick"
    /\ hPending' = hPending \ {p}
    /\ hEv' = HEvent("tick", "none", VUndef, p.arg, VUndef, NoRec, Undef)
    /\ UNCHANGED <<hDef, hInst, hCache, hTargets, hJoins, hNextId>>
    /\ UNCHANGED <<hOthers, hCreates>>

H_create ==
  /\ ~IsThrough
  /\ UNCHANGED <<hOthers, hCreates>>
  /\ \E data \in HCreateData : HasMany_create(data)

H_createCb ==
  \E p \in hPending :
    /\ p.kind = "create"
    /\ UNCHANGED <<hOthers, hCreates>>
    /\ \E ok \in BOOLEAN : HasMany_createCb(p, ok)

H_exists ==
  /\ IsThrough
  /\ UNCHANGED <<hOthers, hCreates>>
  /\ \E id \in HIds : HasManyThrough_exists(id, "exists")

H_existsCb ==
  \E p \in hPending :
    /\ p.kind \in {"exists", "findById"}
    /\ UNCHANGED <<hOthers, hCreates>>
    /\ \E ans \in CountAnswers(hJoins, p.where) :
         IF p.kind = "exists" THEN HasManyThrough_existsCb(p, ans)
         ELSE HasManyThrough_findByIdExistsCb(p, ans)

H_findByIdCb ==
  \E p \in hPending :
    /\ p.kind = "modelTo.findById"
    /\ UNCHANGED <<hOthers, hCreates>>
    /\ \E ans \in FindOneAnswers(hTargets, p.where) : HasManyThrough_findByIdCb(p, ans)

H_add ==
  /\ IsThrough
  /\ UNCHANGED <<hOthers, hCreates>>
  /\ \/ \E id \in HIds : HasManyThrough_add(id, FALSE)
     \/ \E r \in HAddInsts : HasManyThrough_add(r, TRUE)

H_addCb ==
  \E p \in hPending :
    /\ p.kind = "findOrCreate"
    /\ UNCHANGED <<hOthers, hCreates>>
    /\ \E ans \in FindOrCreateAnswers(hJoins, p.where,
                    [p.data EXCEPT !["id"] = p.newId, !["model"] = hDef.modelThrough]) :
         HasManyThrough_addCb(p, ans)

HNext ==
  \/ H_findById
  \/ H_findOneCb
  \/ H_nextTick
  \/ H_create
  \/ H_createCb
  \/ H_exists
  \/ H_existsCb
  \/ H_findByIdCb
  \/ H_add
  \/ H_addCb

InitHasMany == HInit /\ SIdle /\ EIdle /\ RIdle /\ DIdle /\ OIdle /\ PIdle /\ QIdle

SpecHasMany == InitHasMany /\ [][HNext]_vars

\* data a caller may hand to HasManyThrough.create: one item or an array
TCreateData ==
  {[isArray |-> FALSE, data |-> <<Rec(Undef, Undef, Undef, tag)>>] : tag \in {"a", "b"}}
  \cup {[isArray |-> TRUE, data |-> <<Rec(Undef, Undef, Undef, "a"),
                                      Rec(Undef, Undef, Undef, "b")>>]}

T_create ==
  /\ Cardinality(hCreates) < MaxCalls
  /\ \E arg \in TCreateData : HasManyThrough_create(arg.data, arg.isArray)
  /\ UNCHANGED <<hOthers, hPending>>

T_createCb ==
  /\ \E c \in hCreates :
       /\ c.stage = "create"
       /\ \E ok \in BOOLEAN : HasManyThrough_createCb(c, ok)
  /\ UNCHANGED <<hOthers, hPending>>

T_createRelationCb ==
  /\ \E c \in hCreates :
       \E i \in 1..Len(c.items) :
         /\ c.items[i].step = "findOrCreate"
         /\ \E ans \in FindOrCreateAnswers(hJoins, CreateRelation_filter(c.items[i].to),
                                           CreateRelation_d(c.items[i].to)) :
              CreateRelation_cb(c, i, ans)
  /\ UNCHANGED <<hOthers, hPending>>

T_undoCb ==
  /\ \E c \in hCreates :
       \E i \in 1..Len(c.items) :
         /\ c.items[i].step = "undo"
         /\ \E ok \in BOOLEAN : CreateRelation_undoCb(c, i, ok)
  /\ UNCHANGED <<hOthers, hPending>>

TNext ==
  \/ T_create
  \/ T_createCb
  \/ T_createRelationCb
  \/ T_undoCb

InitThroughCreate == HInit /\ IsThrough /\ SIdle /\ EIdle /\ RIdle /\ DIdle /\ OIdle /\ PIdle /\ QIdle

SpecThroughCreate == InitThroughCreate /\ [][TNext]_vars

----------------------------------------------------------------------------
(* HasManyThrough: the join table as the caller sees it *)

H_remove ==
  /\ UNCHANGED <<hOthers, hCreates>>
  /\ \E id \in HIds : HasManyThrough_remove(id, "remove")

H_removeCb ==
  \E p \in hPending :
    /\ p.kind = "remove"
    /\ UNCHANGED <<hOthers, hCreates>>
    /\ \E ans \in DeleteAllAnswers(hJoins, p.where) : HasManyThrough_removeCb(p, ans)

H_destroyById ==
  /\ UNCHANGED <<hOthers, hCreates>>
  /\ \E fkId \in HIds : HasManyThrough_exists(fkId, "destroyById")

H_destroyByIdExistsCb ==
  \E p \in hPending :
    /\ p.kind = "destroyById"
    /\ UNCHANGED <<hOthers, hCreates>>
    /\ \E ans \in CountAnswers(hJoins, p.where) : HasManyThrough_destroyByIdExistsCb(p, ans)

H_destroyByIdRemoveCb ==
  \E p \in hPending :
    /\ p.kind = "destroyById.remove"
    /\ UNCHANGED <<hOthers, hCreates>>
    /\ \E ans \in DeleteAllAnswers(hJoins, p.where) :
         HasManyThrough_destroyByIdRemoveCb(p, ans)

H_destroyByIdCb ==
  \E p \in hPending :
    /\ p.kind = "modelTo.deleteById"
    /\ UNCHANGED <<hOthers, hCreates>>
    /\ \E ok \in BOOLEAN : HasManyThrough_destroyByIdCb(p, ok)

\* findById and destroyById on a source with or without a join row to book 1
DestroyNext ==
  \/ H_findById
  \/ H_existsCb
  \/ H_findByIdCb
  \/ H_destroyById
  \/ H_destroyByIdExistsCb
  \/ H_destroyByIdRemoveCb
  \/ H_destroyByIdCb

HLinkedJoins ==
  HInitJoins \cup {[Rec("AuthorBook", "2", "1", "a") EXCEPT !["fk2"] = "1"]}

\* the source linked to book 1 twice: by a row that carries the scoped field
\* and by a row of an unscoped relation of the same models, which does not
HTwiceLinkedJoins ==
  HLinkedJoins \cup {[Rec("AuthorBook", "3", "1", Undef) EXCEPT !["fk2"] = "1"]}

InitThroughDestroy ==
  /\ hDef \in HDefs
  /\ IsThrough
  /\ \E key \in {"1", Undef, Null} :
       hInst = [Rec("Author", "1", Undef, "a") EXCEPT ![hDef.keyFrom] = key]
  /\ hCache \in {NoList, ListOf(<<Rec("Book", "1", "1", "a")>>)}
  /\ hTargets = HInitTargets
  /\ hJoins \in {HInitJoins, HLinkedJoins, HTwiceLinkedJoins}
  /\ hNextId = 0
  /\ hCreates = {}
  /\ hPending = {}
  /\ hEv = HEvent("init", "none", VUndef, Undef, VUndef, NoRec, Undef)
  /\ SIdle /\ EIdle /\ RIdle /\ DIdle /\ OIdle /\ PIdle /\ QIdle

SpecThroughDestroy == InitThroughDestroy /\ [][DestroyNext]_vars

\* add, exists and remove on one source
LinksNext ==
  \/ H_exists
  \/ H_existsCb
  \/ H_add
  \/ H_addCb
  \/ H_remove
  \/ H_removeCb

SpecThroughLinks == InitThroughCreate /\ [][LinksNext]_vars

\* add and create on one source
AddNext ==
  \/ H_add
  \/ H_addCb
  \/ T_create
  \/ T_createCb
  \/ T_createRelationCb
  \/ T_undoCb

SpecThroughAdd == InitThroughCreate /\ [][AddNext]_vars

----------------------------------------------------------------------------
(* throughKeys of a self-referential through relation *)

\* the relations a join type Follow between Author and Author may declare:
\* two belongsTo relations to Author, and relations that findBelongsTo skips
SelfRelations ==
  {[type |-> "belongsTo", modelTo |-> "Author", keyTo |-> "id", keyFrom |-> "fk"],
   [type |-> "belongsTo", modelTo |-> "Author", keyTo |-> "id", keyFrom |-> "fk2"],
   [type |-> "belongsTo", modelTo |-> "Book", keyTo |-> "id", keyFrom |-> "tag"],
   [type |-> "hasMany", modelTo |-> "Author", keyTo |-> "id", keyFrom |-> "type"]}

\* the declarations of the join type, in every order: both belongsTo
\* relations to Author are among them
SelfDeclarations ==
  {d \in UNION {[1..n -> SelfRelations] : n \in 2..4} :
     /\ \A i, j \in DOMAIN d : i # j => d[i] # d[j]
     /\ \E i \in DOMAIN d : d[i].keyFrom = "fk"
     /\ \E i \in DOMAIN d : d[i].keyFrom = "fk2"}

\* the descriptor of author.followers through Follow with foreign key keyTo
SelfDefinition(keyTo, keyThrough) ==
  [Definition("hasMany", "Author", "Author", "id", keyTo, NoPoly, NoScope, NoProps)
     EXCEPT !.modelThrough = "Follow", !.keyThrough = keyThrough]

KInit ==
  /\ \E d \in SelfDeclarations, keyTo \in {"fk", "fk2", "authorId"}, first \in {1, 2} :
       qCall = [fn |-> "throughKeys", relations |-> d, first |-> first,
                definition |-> SelfDefinition(keyTo, IF keyTo = "fk" THEN "fk2" ELSE "fk")]
  /\ qRet = [done |-> FALSE]

K_throughKeys ==
  /\ qCall.fn = "throughKeys"
  /\ ~qRet.done
  /\ qRet' = [done |-> TRUE,
              keys |-> throughKeysOf(qCall.relations, qCall.definition, qCall.first)]
  /\ UNCHANGED <<qCall, qOthers>>

InitThroughKeys ==
  KInit /\ SIdle /\ HIdle /\ EIdle /\ RIdle /\ DIdle /\ OIdle /\ PIdle

SpecThroughKeys == InitThroughKeys /\ [][K_throughKeys]_vars

----------------------------------------------------------------------------
(* applyScope applied to one filter *)

PolyInverted == [Poly EXCEPT !.invert = TRUE]

\* custom scopes on the data field, on the discriminator and on the join key
AScopes ==
  {NoScope, TagScope, FnScope,
   [kind |-> "static", where |-> [NoWhere EXCEPT !["type"] = "Link"]],
   [kind |-> "static", where |-> [NoWhere EXCEPT !["fk"] = "2", !["tag"] = "b"]]}

\* the join condition the caller has put into the filter
AWheres ==
  {NoWhere, [NoWhere EXCEPT !["fk"] = "1"],
   [NoWhere EXCEPT !["fk"] = "1", !["type"] = "Photo"]}

AInit ==
  /\ \E type \in {"belongsTo", "hasOne", "hasMany", "embedsMany"},
        poly \in {NoPoly, Poly, PolyInverted}, scope \in AScopes,
        where \in AWheres, tag \in {"a", Undef} :
       qCall = [fn |-> "applyScope",
                definition |-> Definition(type, "Author", "Book", "id", "fk", poly, scope,
                                          NoProps),
                modelInstance |-> Rec("Author", "1", Undef, tag),
                where |-> where]
  /\ qRet = [done |-> FALSE]

A_applyScope ==
  /\ qCall.fn = "applyScope"
  /\ ~qRet.done
  /\ qRet' = [done |-> TRUE,
              where |-> applyScope(qCall.definition, qCall.modelInstance, qCall.where)]
  /\ UNCHANGED <<qCall, qOthers>>

InitApplyScope ==
  AInit /\ SIdle /\ HIdle /\ EIdle /\ RIdle /\ DIdle /\ OIdle /\ PIdle

SpecApplyScope == InitApplyScope /\ [][A_applyScope]_vars

----------------------------------------------------------------------------
(* the relation cache of HasMany under addToCache and removeFromCache *)

\* records a caller may hand to addToCache, ids it may hand to removeFromCache
CacheIds == {"1", "2", "3"}

CacheRecords == {Rec("Book", id, "1", tag) : id \in CacheIds, tag \in {"a", "b"}}

CacheInit ==
  /\ \E c \in {NoList, ListOf(<<>>)}
               \cup {ListOf(<<a>>) : a \in CacheRecords}
               \cup {ListOf(<<a, b>>) : a \in CacheRecords,
                                        b \in {x \in CacheRecords : x["id"] = "3"}} :
       /\ \A i, j \in 1..Len(c.l) : i # j => c.l[i][idName] # c.l[j][idName]
       /\ qCall = [fn |-> "cache", cache |-> c]
  /\ qRet = [done |-> FALSE]

Cache_addToCache ==
  /\ qCall.fn = "cache"
  /\ \E inst \in CacheRecords :
       /\ qCall' = [qCall EXCEPT !.cache = addToCache(qCall.cache, inst)]
       /\ qRet' = [done |-> TRUE, op |-> "addToCache", inst |-> inst, id |-> inst[idName],
                   before |-> qCall.cache]
  /\ UNCHANGED qOthers

Cache_removeFromCache ==
  /\ qCall.fn = "cache"
  /\ \E id \in CacheIds :
       /\ qCall' = [qCall EXCEPT !.cache = removeFromCache(qCall.cache, id)]
       /\ qRet' = [done |-> TRUE, op |-> "removeFromCache", inst |-> NoRec, id |-> id,
                   before |-> qCall.cache]
  /\ UNCHANGED qOthers

CacheNext ==
  \/ Cache_addToCache
  \/ Cache_removeFromCache

InitCache ==
  CacheInit /\ SIdle /\ HIdle /\ EIdle /\ RIdle /\ DIdle /\ OIdle /\ PIdle

SpecCache == InitCache /\ [][CacheNext]_vars

----------------------------------------------------------------------------
(* applyProperties applied to one pair of records *)

\* property rules: lists and maps on the data field, the second join key and
\* the discriminator field, and the computed rule
BProps ==
  {NoProps, ListProps, FnProps,
   [kind |-> "list", list |-> <<"tag", "type">>, map |-> <<>>],
   [kind |-> "map", list |-> <<>>, map |-> << <<"tag", "fk2">> >>],
   [kind |-> "map", list |-> <<>>, map |-> << <<"tag", "type">>, <<"id", "fk2">> >>]}

BInit ==
  /\ \E type \in {"belongsTo", "hasOne", "hasMany"}, poly \in {NoPoly, Poly, PolyInverted},
        props \in BProps, invert \in BOOLEAN, embeds \in BOOLEAN, tag \in {"a", Undef} :
       qCall = [fn |-> "applyProperties",
                definition |->
                  [Definition(type, "Author", "Book", "id", "fk", poly, NoScope, props)
                     EXCEPT !.invertProperties = invert, !.embedsProperties = embeds],
                modelInstance |-> [Rec("Author", "1", Undef, tag) EXCEPT !["type"] = "Link"],
                obj |-> [Rec("Book", "2", "9", "b") EXCEPT !["type"] = "Photo"]]
  /\ qRet = [done |-> FALSE]

B_applyProperties ==
  /\ qCall.fn = "applyProperties"
  /\ ~qRet.done
  /\ qRet' = [done |-> TRUE,
              target |-> applyProperties(qCall.definition, qCall.modelInstance, qCall.obj)]
  /\ UNCHANGED <<qCall, qOthers>>

InitApplyProperties ==
  BInit /\ SIdle /\ HIdle /\ EIdle /\ RIdle /\ DIdle /\ OIdle /\ PIdle

SpecApplyProperties == InitApplyProperties /\ [][B_applyProperties]_vars

----------------------------------------------------------------------------
(* update through a relation: HasMany.updateById, HasOne.update, BelongsTo.update *)

\* payloads of an update: a value for the foreign key property, or for the
\* property the relation's keyTo names
UUpdateData(keyTo) ==
  {[Rec(Undef, Undef, Undef, "b") EXCEPT ![f] = key] :
     f \in {"fk", keyTo}, key \in {Undef, "1", "2"}}

U_update ==
  /\ sInst # NoRec
  /\ Cardinality(sPending) < MaxPending
  /\ sOps < MaxOps
  /\ sOps' = sOps + 1
  /\ \E targetModelData \in UUpdateData(sDef.keyTo) :
       IF sDef.type = "belongsTo"
       THEN \E r \in {"false", "true"} : BelongsTo_update(targetModelData, r)
       ELSE HasOne_update(targetModelData)
  /\ UNCHANGED sOthers

U_updateById ==
  /\ hInst # NoRec
  /\ \E fkId \in {"1", "2", "9"}, data \in UUpdateData(hDef.keyTo) :
       HasMany_updateById(fkId, data)
  /\ UNCHANGED <<hOthers, hCreates>>

U_updateTick ==
  /\ \E p \in hPending : p.kind = "updateTick" /\ HasMany_updateTick(p)
  /\ UNCHANGED <<hOthers, hCreates>>

U_updateFindCb ==
  /\ \E p \in hPending :
       /\ p.kind = "updateFind"
       /\ \E ans \in FindOneAnswers(hTargets, p.where) : HasMany_updateFindCb(p, ans)
  /\ UNCHANGED <<hOthers, hCreates>>

U_updateByIdCb ==
  /\ \E p \in hPending :
       /\ p.kind = "updateAttributes"
       /\ \E ok \in BOOLEAN : HasMany_updateAttributesCb(p, ok)
  /\ UNCHANGED <<hOthers, hCreates>>

UNext ==
  \/ U_update
  \/ S_fetchCb
  \/ S_updateAttributesCb
  \/ U_updateById
  \/ U_updateTick
  \/ U_updateFindCb
  \/ U_updateByIdCb

InitUpdate ==
  \/ SInit /\ HIdle /\ EIdle /\ RIdle /\ DIdle /\ OIdle /\ PIdle /\ QIdle
  \/ HInit /\ ~IsThrough /\ SIdle /\ EIdle /\ RIdle /\ DIdle /\ OIdle /\ PIdle /\ QIdle

SpecUpdate == InitUpdate /\ [][UNext]_vars

----------------------------------------------------------------------------
(* HasMany.prototype.destroyById *)

\* author.books.destroyById(fkId, cb): findById, then its callback.  The
\* pending call carries the relation cache as it was when the call was made.
HasMany_destroyById(fkId) ==
  LET fk == hDef.keyTo
      pk == hDef.keyFrom
      where == [NoWhere EXCEPT ![idName] = fkId, ![fk] = hInst[pk]]
  IN /\ Cardinality(hPending) < MaxPending
     /\ hPending' = hPending \cup
          {(IF where[fk] = Undef
            THEN HPend("destroyTick", NoWhere, NoRec, fkId, NoRec, NoRec, Undef)
            ELSE HPend("destroyFind", applyScope(hDef, hInst, where), NoRec, fkId, NoRec,
                       NoRec, Undef)) @@ [cache |-> hCache]}
     /\ hEv' = HEvent("destroyById", "none", VUndef, fkId, VUndef, NoRec, Undef)
     /\ UNCHANGED <<hDef, hInst, hCache, hTargets, hJoins, hNextId>>

\* process.nextTick(cb) of findById under destroyById: the callback gets no
\* error and no instance, removes the id from the cache, and inst.destroy
\* throws a TypeError
HasMany_destroyTick(p) ==
  /\ hPending' = hPending \ {p}
  /\ hCache' = removeFromCache(hCache, p.arg)
  /\ hEv' = HEvent("destroyThrow", "TypeError", VUndef, p.arg, VUndef, NoRec, Undef)
  /\ UNCHANGED <<hDef, hInst, hTargets, hJoins, hNextId>>

\* the callback of modelTo.findOne in findById, handing on to the callback of
\* destroyById: removeFromCache, then inst.destroy
HasMany_destroyFindCb(p, ans) ==
  LET found == /\ ans.k = "rec"
               /\ HasMany_fkMatches(ans.r, hInst, hDef.keyTo, hDef.keyFrom)
  IN /\ UNCHANGED <<hDef, hInst, hTargets, hJoins, hNextId>>
     /\ IF found
        THEN /\ hCache' = removeFromCache(hCache, p.arg)
             /\ hPending' = (hPending \ {p}) \cup
                  {[p EXCEPT !.kind = "destroy", !.inst = ans.r]}
             /\ hEv' = HEvent("destroyFound", "none", VUndef, p.arg, ans, NoRec, Undef)
        ELSE /\ hCache' = hCache
             /\ hPending' = hPending \ {p}
             /\ hEv' = HEvent("destroyCb",
                              IF ans.k = "err" THEN "storage"
                              ELSE IF ans.k = "null" THEN "404" ELSE "400",
                              VUndef, p.arg, ans, NoRec, Undef)

\* the callback of inst.destroy in destroyById
HasMany_destroyCb(p, ok) ==
  /\ hPending' = hPending \ {p}
  /\ UNCHANGED <<hDef, hInst, hCache, hJoins, hNextId>>
  /\ hTargets' = IF ok THEN hTargets \ {p.inst} ELSE hTargets
  /\ hEv' = HEvent("destroyCb", IF ok THEN "none" ELSE "storage", VUndef, p.arg,
                   VRec(p.inst), NoRec, Undef)

\* one destroyById at a time
X_destroyById ==
  /\ hPending = {}
  /\ \E fkId \in {"1", "2", "9"} : HasMany_destroyById(fkId)
  /\ UNCHANGED <<hOthers, hCreates>>

X_destroyTick ==
  /\ \E p \in hPending : p.kind = "destroyTick" /\ HasMany_destroyTick(p)
  /\ UNCHANGED <<hOthers, hCreates>>

X_destroyFindCb ==
  /\ \E p \in hPending :
       /\ p.kind = "destroyFind"
       /\ \E ans \in FindOneAnswers(hTargets, p.where) : HasMany_destroyFindCb(p, ans)
  /\ UNCHANGED <<hOthers, hCreates>>

X_destroyCb ==
  /\ \E p \in hPending :
       /\ p.kind = "destroy"
       /\ \E ok \in BOOLEAN : HasMany_destroyCb(p, ok)
  /\ UNCHANGED <<hOthers, hCreates>>

XNext ==
  \/ X_destroyById
  \/ X_destroyTick
  \/ X_destroyFindCb
  \/ X_destroyCb

\* a plain HasMany relation whose cache holds none, one or both of the books
InitHasManyDestroy ==
  /\ hDef \in HDefs
  /\ ~IsThrough
  /\ \E key \in {"1", "2", Undef} :
       hInst = [Rec("Author", "1", Undef, "a") EXCEPT ![hDef.keyFrom] = key]
  /\ hCache \in {NoList} \cup
       {ListOf(l) : l \in {<<Rec("Book", "1", "1", "a")>>,
                           <<Rec("Book", "1", "1", "a"), Rec("Book", "2", "2", "b")>>}}
  /\ hTargets = HInitTargets
  /\ hJoins = {}
  /\ hNextId = 0
  /\ hCreates = {}
  /\ hPending = {}
  /\ hEv = HEvent("init", "none", VUndef, Undef, VUndef, NoRec, Undef)
  /\ SIdle /\ EIdle /\ RIdle /\ DIdle /\ OIdle /\ PIdle /\ QIdle

SpecHasManyDestroy == InitHasManyDestroy /\ [][XNext]_vars

----------------------------------------------------------------------------
(* EmbedsMany: construction *)

\* embedded items constructed by build
MaxItems == 2

\* ids of the Number type
IdNum(id) ==
  CASE id = "1" -> 1 [] id = "2" -> 2 [] id = "3" -> 3 [] id = "4" -> 4 [] id = "5" -> 5
    [] id = "6" -> 6 [] id = "7" -> 7 [] id = "8" -> 8 [] id = "9" -> 9 [] OTHER -> 0

IdOf(n) == <<"1", "2", "3", "4", "5", "6", "7", "8", "9">>[n]

\* new modelTo(targetModelData): a record with an identity of its own
EItem(data, oid) == [data EXCEPT !["model"] = "Email"] @@ [oid |-> oid]

ENoItem == NoRec @@ [oid |-> 0]

ENull == [k |-> "null", r |-> ENoItem]
EUndef == [k |-> "undef", r |-> ENoItem]

EOptions(prepend) ==
  [prepend |-> prepend, persistent |-> FALSE, forceId |-> FALSE, validate |-> TRUE]

\* the params of the embedsMany declarations under study
EParams ==
  {[as |-> Undef, property |-> Undef, polymorphic |-> poly, options |-> EOptions(prepend)] :
     poly \in BOOLEAN, prepend \in BOOLEAN}
  \cup {[as |-> "emails", property |-> Undef, polymorphic |-> FALSE,
          options |-> EOptions(FALSE)]}

\* RelationDefinition.embedsMany: the definition it registers, with the
\* validations it installs on modelFrom
embedsMany(params) ==
  LET relationName == IF params.as # Undef THEN params.as ELSE "emailList"
      p0 == IF params.property # Undef THEN params.property ELSE "emails"
      propertyName == IF relationName = p0 THEN "_" \o p0 ELSE p0
  IN Definition("embedsMany", "Customer", "Email", propertyName, "id", NoPoly, NoScope,
                NoProps)
       @@ [name |-> relationName,
           options |-> params.options,
           validations |-> {"blank", "items"}
                             \cup (IF ~params.polymorphic THEN {"uniqueness"} ELSE {})]

EDefs == {embedsMany(params) : params \in EParams}

TripNone == [phase |-> "none", base |-> <<>>, id |-> Undef]

EEvent(op, err, val, arg, errors) ==
  [op |-> op, err |-> err, val |-> val, arg |-> arg, errors |-> errors]

EPend(kind, item, base, tracked, ev) ==
  [kind |-> kind, item |-> item, base |-> base, tracked |-> tracked, ev |-> ev]

EInitItem == EItem(Rec("Email", "1", Undef, "a"), 0)

EInit ==
  /\ eDef \in EDefs
  /\ eInst = Rec("Customer", "1", Undef, "a")
  /\ \/ eIsNew = TRUE /\ eList = <<>>
     \/ eIsNew = FALSE /\ eList = <<EInitItem>>
  /\ eStored = eList
  /\ eNextOid = 0
  /\ ePending = {}
  /\ eEv = EEvent("init", "none", EUndef, Undef, {})
  /\ eTrip = TripNone

----------------------------------------------------------------------------
(* EmbedsMany: validations of the source model *)

\* utils.idsHaveDuplicates
idsHaveDuplicates(ids) == \E i, j \in 1..Len(ids) : i < j /\ ids[i] = ids[j]

\* item.isValid(): the embedded model requires its data field
ItemIsValid(item) == item["tag"] # Undef

EError(name, code) == [name |-> name, code |-> code]

\* the validations without the uniqueness check
EValidateNoUniqueness(list) ==
  IF \E i \in 1..Len(list) : ~NotNullish(list[i][eDef.keyTo]) \/ ~ItemIsValid(list[i])
  THEN {EError(eDef.keyFrom, "invalid")} ELSE {}

\* modelInstance.isValid() as far as the factory's validations decide it:
\* the errors they add to modelInstance.errors
EValidate(list) ==
  LET propertyName == eDef.keyFrom
      pk == eDef.keyTo
      items == 1..Len(list)
      blank == "blank" \in eDef.validations /\ \E i \in items : ~NotNullish(list[i][pk])
      duplicate == /\ "uniqueness" \in eDef.validations
                   /\ idsHaveDuplicates([i \in items |-> list[i][pk]])
      invalid == /\ "items" \in eDef.validations
                 /\ eDef.options.validate
                 /\ \E i \in items : ~ItemIsValid(list[i])
  IN (IF blank \/ invalid THEN {EError(propertyName, "invalid")} ELSE {})
       \cup (IF duplicate THEN {EError(propertyName, "uniqueness")} ELSE {})

----------------------------------------------------------------------------
(* EmbedsMany scope methods *)

\* the largest of a list of numbers, 0 for none
RECURSIVE MaxOf(_)
MaxOf(nums) ==
  IF nums = <<>> THEN 0
  ELSE IF Head(nums) > MaxOf(Tail(nums)) THEN Head(nums) ELSE MaxOf(Tail(nums))

\* customer.emails.findById(fkId): the first item with that id, or null
EmbedsMany_findById(list, fkId) ==
  LET hits == {i \in 1..Len(list) : idEquals(list[i][eDef.keyTo], fkId)}
  IN IF hits = {} THEN ENull
     ELSE [k |-> "rec", r |-> list[CHOOSE i \in hits : \A j \in hits : i <= j]]

\* embeddedList.indexOf(inst) that never finds the item
indexOfNever(list, inst) == 0

\* embeddedList.indexOf(inst), counted from 1; 0 when inst is not in the list
indexOf(list, inst) ==
  LET hits == {i \in 1..Len(list) : list[i].oid = inst.oid}
  IN IF hits = {} THEN 0 ELSE CHOOSE i \in hits : \A j \in hits : i <= j

\* embeddedList.splice(index, 1)
splice(list, index) ==
  [i \in 1..(Len(list) - 1) |-> IF i < index THEN list[i] ELSE list[i + 1]]

\* build that numbers a new item by the length of the list
EmbedsMany_buildCounts(list, targetModelData, oid) ==
  LET inst == EItem(applyProperties(eDef, eInst,
                 [targetModelData EXCEPT ![eDef.keyTo] = IdOf(Len(list) + 1)]), oid)
  IN [inst |-> inst,
      list |-> IF eDef.options.prepend THEN <<inst>> \o list ELSE Append(list, inst)]

\* customer.emails.build(targetModelData): the item and the list with it
EmbedsMany_build(list, targetModelData, oid) ==
  LET pk == eDef.keyTo
      assignId == /\ (eDef.options.forceId \/ targetModelData[pk] = Undef)
                  /\ ~eDef.options.persistent
      ids == [i \in 1..Len(list) |-> IdNum(list[i][pk])]
      d1 == IF assignId
            THEN [targetModelData EXCEPT
                    ![pk] = IdOf(IF Len(ids) > 0 THEN MaxOf(ids) + 1 ELSE 1)]
            ELSE targetModelData
      inst == EItem(applyProperties(eDef, eInst, d1), oid)
  IN [inst |-> inst,
      list |-> IF eDef.options.prepend THEN <<inst>> \o list ELSE Append(list, inst)]

\* customer.emails.create(targetModelData, cb)
EmbedsMany_create(targetModelData) ==
  LET built == EmbedsMany_build(eList, targetModelData, eNextOid + 1)
      inst == built.inst
  IN /\ Cardinality(ePending) < MaxCalls
     /\ eNextOid < MaxItems
     /\ eNextOid' = eNextOid + 1
     /\ eList' = built.list
     /\ eTrip' = TripNone
     /\ ePending' = ePending \cup
          {IF ItemIsValid(inst)
           THEN EPend("before save", inst, eList, FALSE, EUndef)
           ELSE EPend("tick", inst, eList, FALSE,
                      EEvent("createCb", "invalid item", EUndef, inst.id, {}))}
     /\ eEv' = EEvent("create", "none", EUndef, Undef, {})
     /\ UNCHANGED <<eDef, eInst, eIsNew, eStored>>

\* create: the callback of notifyObserversOf('before save'), calling
\* updateEmbedded
EmbedsMany_createBeforeSaveCb(p, ok) ==
  /\ UNCHANGED <<eDef, eInst, eIsNew, eList, eStored, eNextOid, eTrip>>
  /\ IF ok
     THEN /\ ePending' = (ePending \ {p}) \cup
               {EPend(IF eIsNew THEN "save" ELSE "updateAttribute", p.item, p.base, FALSE,
                      EUndef)}
          /\ eEv' = EEvent("before save", "none", EUndef, Undef, {})
     ELSE /\ ePending' = ePending \ {p}
          /\ eEv' = EEvent("createCb", "hook", EUndef, p.item.id, {})

\* create: the callback of modelInstance.save / updateAttribute in
\* updateEmbedded; the source is validated, then stored
EmbedsMany_createUpdateCb(p, stored) ==
  LET errors == EValidate(eList)
  IN /\ UNCHANGED <<eDef, eInst, eList, eNextOid, eTrip>>
     /\ IF errors # {}
        THEN /\ ePending' = ePending \ {p}
             /\ eEv' = EEvent("createCb", "validation", ENull, p.item.id, errors)
             /\ UNCHANGED <<eIsNew, eStored>>
        ELSE IF ~stored
        THEN /\ ePending' = ePending \ {p}
             /\ eEv' = EEvent("createCb", "storage", ENull, p.item.id, {})
             /\ UNCHANGED <<eIsNew, eStored>>
        ELSE /\ eStored' = eList
             /\ eIsNew' = FALSE
             /\ ePending' = (ePending \ {p}) \cup
                  {EPend("after save", p.item, p.base, FALSE, EUndef)}
             /\ eEv' = EEvent(p.kind, "none", EUndef, Undef, {})

\* create: the callback of notifyObserversOf('after save')
EmbedsMany_createAfterSaveCb(p, ok) ==
  /\ ePending' = ePending \ {p}
  /\ UNCHANGED <<eDef, eInst, eIsNew, eList, eStored, eNextOid>>
  /\ IF ok
     THEN /\ eEv' = EEvent("createCb", "none", [k |-> "rec", r |-> p.item], p.item.id, {})
          /\ eTrip' = IF /\ ePending = {p}
                         /\ eList = (IF eDef.options.prepend THEN <<p.item>> \o p.base
                                     ELSE Append(p.base, p.item))
                      THEN [phase |-> "created", base |-> p.base, id |-> p.item.id]
                      ELSE TripNone
     ELSE /\ eEv' = EEvent("createCb", "hook", ENull, p.item.id, {})
          /\ UNCHANGED eTrip

\* customer.emails.destroyById(fkId, cb)
EmbedsMany_destroyById(fkId) ==
  LET inst == EmbedsMany_findById(eList, fkId)
      tracked == eTrip.phase = "created" /\ fkId = eTrip.id /\ ePending = {}
  IN /\ Cardinality(ePending) < MaxCalls
     /\ ePending' = ePending \cup
          {IF inst.k = "rec"
           THEN EPend("before delete", inst.r, <<>>, tracked, EUndef)
           ELSE EPend("tick", ENoItem, <<>>, FALSE, EEvent("destroyByIdCb", "none", EUndef, fkId, {}))}
     /\ eTrip' = IF tracked /\ inst.k = "rec" THEN [eTrip EXCEPT !.phase = "destroying"]
                 ELSE TripNone
     /\ eEv' = EEvent("destroyById", "none", EUndef, Undef, {})
     /\ UNCHANGED <<eDef, eInst, eIsNew, eList, eStored, eNextOid>>

\* destroyById: the callback of notifyObserversOf('before delete'); the item
\* leaves the list and the source is updated
EmbedsMany_destroyBeforeDeleteCb(p, ok) ==
  LET index == indexOf(eList, p.item)
  IN /\ UNCHANGED <<eDef, eInst, eIsNew, eStored, eNextOid>>
     /\ IF ok
        THEN /\ eList' = IF index > 0 THEN splice(eList, index) ELSE eList
             /\ ePending' = (ePending \ {p}) \cup
                  {EPend("destroy.updateAttribute", p.item, <<>>, p.tracked, EUndef)}
             /\ eEv' = EEvent("before delete", "none", EUndef, Undef, {})
             /\ eTrip' = IF p.tracked THEN eTrip ELSE TripNone
        ELSE /\ ePending' = ePending \ {p}
             /\ eEv' = EEvent("destroyByIdCb", "hook", EUndef, p.item.id, {})
             /\ eTrip' = IF p.tracked THEN TripNone ELSE eTrip
             /\ UNCHANGED eList

\* destroyById: the callback of modelInstance.updateAttribute
EmbedsMany_destroyUpdateCb(p, stored) ==
  LET errors == EValidate(eList)
  IN /\ UNCHANGED <<eDef, eInst, eList, eNextOid>>
     /\ IF errors # {} \/ ~stored
        THEN /\ ePending' = ePending \ {p}
             /\ eEv' = EEvent("destroyByIdCb", IF errors # {} THEN "validation" ELSE "storage",
                              EUndef, p.item.id, errors)
             /\ eTrip' = IF p.tracked THEN TripNone ELSE eTrip
             /\ UNCHANGED <<eIsNew, eStored>>
        ELSE /\ eStored' = eList
             /\ eIsNew' = FALSE
             /\ ePending' = (ePending \ {p}) \cup
                  {EPend("after delete", p.item, <<>>, p.tracked, EUndef)}
             /\ eEv' = EEvent("destroy.updateAttribute", "none", EUndef, Undef, {})
             /\ UNCHANGED eTrip

\* destroyById: the callback of notifyObserversOf('after delete')
EmbedsMany_destroyAfterDeleteCb(p, ok) ==
  /\ ePending' = ePending \ {p}
  /\ UNCHANGED <<eDef, eInst, eIsNew, eList, eStored, eNextOid>>
  /\ eEv' = EEvent("destroyByIdCb", IF ok THEN "none" ELSE "hook", EUndef, p.item.id, {})
  /\ eTrip' = IF p.tracked
              THEN (IF ok /\ eTrip.phase = "destroying" THEN [eTrip EXCEPT !.phase = "done"]
                    ELSE TripNone)
              ELSE eTrip

----------------------------------------------------------------------------
(* EmbedsMany: the scope methods as the caller sees them *)

\* data a caller may hand to create
ECreateData ==
  {Rec(Undef, id, Undef, tag) : id \in {Undef, "1"}, tag \in {"b"}}
    \cup {Rec(Undef, Undef, Undef, Undef)}

\* ids a caller may ask for
EIds == {"1", "2"}

E_create ==
  /\ UNCHANGED eOthers
  /\ \E data \in ECreateData : EmbedsMany_create(data)

E_destroyById ==
  /\ UNCHANGED eOthers
  /\ \E fkId \in EIds : EmbedsMany_destroyById(fkId)

\* process.nextTick: the handler runs with what the call left for it
E_nextTick ==
  \E p \in ePending :
    /\ p.kind = "tick"
    /\ ePending' = ePending \ {p}
    /\ eEv' = p.ev
    /\ UNCHANGED <<eDef, eInst, eIsNew, eList, eStored, eNextOid, eTrip>>
    /\ UNCHANGED eOthers

\* notifyObserversOf: the observers of the embedded model let the operation
\* pass or fail it
E_hookCb ==
  \E p \in ePending, ok \in BOOLEAN :
    /\ UNCHANGED eOthers
    /\ CASE p.kind = "before save" -> EmbedsMany_createBeforeSaveCb(p, ok)
         [] p.kind = "after save" -> EmbedsMany_createAfterSaveCb(p, ok)
         [] p.kind = "before delete" -> EmbedsMany_destroyBeforeDeleteCb(p, ok)
         [] p.kind = "after delete" -> EmbedsMany_destroyAfterDeleteCb(p, ok)
         [] OTHER -> FALSE

\* modelInstance.save / updateAttribute: the storage persists the source or
\* fails
E_updateCb ==
  \E p \in ePending, stored \in BOOLEAN :
    /\ UNCHANGED eOthers
    /\ CASE p.kind \in {"save", "updateAttribute"} -> EmbedsMany_createUpdateCb(p, stored)
         [] p.kind = "destroy.updateAttribute" -> EmbedsMany_destroyUpdateCb(p, stored)
         [] OTHER -> FALSE

ENext ==
  \/ E_create
  \/ E_destroyById
  \/ E_nextTick
  \/ E_hookCb
  \/ E_updateCb

InitEmbedsMany == EInit /\ SIdle /\ HIdle /\ RIdle /\ DIdle /\ OIdle /\ PIdle /\ QIdle

SpecEmbedsMany == InitEmbedsMany /\ [][ENext]_vars

\* customer.emails.build(targetModelData): the item enters the list of the
\* instance and nothing is stored
E_build ==
  /\ UNCHANGED eOthers
  /\ eNextOid < MaxItems
  /\ \E data \in ECreateData :
       /\ data["id"] = Undef
       /\ LET built == EmbedsMany_build(eList, data, eNextOid + 1)
          IN /\ eList' = built.list
             /\ eEv' = EEvent("build", "none", [k |-> "rec", r |-> built.inst], Undef, {})
  /\ eNextOid' = eNextOid + 1
  /\ eTrip' = TripNone
  /\ UNCHANGED <<eDef, eInst, eIsNew, eStored, ePending>>

\* create with data that names no id
E_createAuto ==
  /\ UNCHANGED eOthers
  /\ \E data \in ECreateData : data["id"] = Undef /\ EmbedsMany_create(data)

\* build, create and destroyById where the relation assigns every id
EAutoNext ==
  \/ E_build
  \/ E_createAuto
  \/ E_destroyById
  \/ E_nextTick
  \/ E_hookCb
  \/ E_updateCb

SpecEmbedsManyIds == InitEmbedsMany /\ [][EAutoNext]_vars

----------------------------------------------------------------------------
(* EmbedsOne *)

\* Order embedsOne Address: the definition RelationDefinition.embedsOne
\* registers for the default names, the target not stored on its own
ODef ==
  Definition("embedsOne", "Order", "Address", "address", "id", NoPoly, NoScope, NoProps)
    @@ [name |-> "addressItem", options |-> [persistent |-> FALSE, validate |-> TRUE]]

\* new modelTo(data): an embedded instance, told apart by its place in oHeap
OItem(data, oid) == [data EXCEPT !["model"] = ODef.modelTo] @@ [oid |-> oid]

\* inst.isValid(): the embedded model requires its data field
OIsValid(item) == NotNullish(item["tag"])

\* modelInstance[propertyName] as a value
OField(heap, value) == IF value = 0 THEN EUndef ELSE [k |-> "rec", r |-> heap[value]]

OEvent(op, err, val) == [op |-> op, err |-> err, val |-> val]

OPend(kind, op, oid, data, base, ev) ==
  [kind |-> kind, op |-> op, oid |-> oid, data |-> data, base |-> base, ev |-> ev]

ONoEvent == OEvent("none", "none", EUndef)

OInit ==
  /\ oInst = Rec("Order", "1", Undef, "a")
  /\ \/ oIsNew = TRUE /\ oHeap = <<>> /\ oValue = 0
     \/ oIsNew = FALSE /\ oHeap = <<OItem(Rec(Undef, Undef, Undef, "a"), 1)>> /\ oValue = 1
  /\ oStored = OField(oHeap, oValue)
  /\ oPending = {}
  /\ oEv = OEvent("init", "none", EUndef)

\* inst.setAttributes(data): the attributes data names replace the instance's
setAttributes(item, data) ==
  [f \in DOMAIN item |->
     IF f \in Fields /\ data[f] # Undef THEN data[f] ELSE item[f]]

\* order.addressItem.build(targetModelData): the instance, which becomes
\* the value of the property
EmbedsOne_build(targetModelData, oid) ==
  OItem(applyProperties(ODef, oInst, targetModelData), oid)

\* order.addressItem.create(targetModelData, cb)
EmbedsOne_create(targetModelData) ==
  LET oid == Len(oHeap) + 1
      inst == EmbedsOne_build(targetModelData, oid)
  IN /\ Cardinality(oPending) < MaxCalls
     /\ Len(oHeap) < MaxItems
     /\ oHeap' = Append(oHeap, inst)
     /\ oValue' = oid
     /\ oPending' = oPending \cup
          {OPend("before save", "create", oid, NoRec, OField(oHeap, oValue), ONoEvent)}
     /\ oEv' = OEvent("create", "none", EUndef)
     /\ UNCHANGED <<oInst, oIsNew, oStored>>

\* create: the callback of notifyObserversOf('before save'), validating the
\* instance and calling updateEmbedded
EmbedsOne_createBeforeSaveCb(p, ok) ==
  LET inst == oHeap[p.oid]
  IN /\ UNCHANGED <<oInst, oIsNew, oHeap, oStored>>
     /\ IF ~ok
        THEN /\ oPending' = (oPending \ {p}) \cup
                  {[p EXCEPT !.kind = "tick", !.ev = OEvent("createCb", "hook", EUndef)]}
             /\ oEv' = OEvent("before save", "before hook", EUndef)
             /\ UNCHANGED oValue
        ELSE IF ~OIsValid(inst)
        THEN /\ oPending' = (oPending \ {p}) \cup
                  {[p EXCEPT !.kind = "tick",
                             !.ev = OEvent("createCb", "invalid item", EUndef)]}
             /\ oEv' = OEvent("before save", "none", EUndef)
             /\ UNCHANGED oValue
        ELSE /\ oPending' = (oPending \ {p}) \cup
                  {[p EXCEPT !.kind = IF oIsNew THEN "save" ELSE "updateAttribute"]}
             /\ oValue' = IF oIsNew THEN p.oid ELSE oValue
             /\ oEv' = OEvent("before save", "none", EUndef)

\* the validation embedsOne installs on modelFrom: an embedded instance
\* must be valid
OValidate(heap, value) ==
  ODef.options.validate /\ value # 0 /\ ~OIsValid(heap[value])

\* create: the callback of modelInstance.save / updateAttribute in
\* updateEmbedded
EmbedsOne_createUpdateCb(p, stored) ==
  LET value == IF p.kind = "updateAttribute" THEN p.oid ELSE oValue
      failed == OValidate(oHeap, value) \/ ~stored
  IN /\ UNCHANGED <<oInst, oHeap>>
     /\ IF failed
        THEN /\ oPending' = oPending \ {p}
             /\ oEv' = OEvent("createCb", "storage", EUndef)
             /\ UNCHANGED <<oIsNew, oValue, oStored>>
        ELSE /\ oValue' = value
             /\ oStored' = OField(oHeap, value)
             /\ oIsNew' = FALSE
             /\ oPending' = (oPending \ {p}) \cup {[p EXCEPT !.kind = "after save"]}
             /\ oEv' = OEvent(p.kind, "none", EUndef)

\* create: the callback of notifyObserversOf('after save')
EmbedsOne_createAfterSaveCb(p, ok) ==
  /\ oPending' = oPending \ {p}
  /\ UNCHANGED <<oInst, oIsNew, oHeap, oValue, oStored>>
  /\ oEv' = IF ok THEN OEvent("createCb", "none", [k |-> "rec", r |-> oHeap[p.oid]])
            ELSE OEvent("createCb", "after hook", ENull)

\* order.addressItem.update(targetModelData, cb)
EmbedsOne_update(targetModelData) ==
  IF oValue # 0
  THEN /\ Cardinality(oPending) < MaxCalls
       /\ oPending' = oPending \cup
            {OPend("before save", "update", oValue, targetModelData,
                   OField(oHeap, oValue), ONoEvent)}
       /\ oEv' = OEvent("update", "none", EUndef)
       /\ UNCHANGED <<oInst, oIsNew, oHeap, oValue, oStored>>
  ELSE EmbedsOne_create(targetModelData)

\* update: the callback of notifyObserversOf('before save'); the embedded
\* instance takes the data and the source is saved
EmbedsOne_updateBeforeSaveCb(p, ok) ==
  LET embeddedInstance == setAttributes(oHeap[p.oid], p.data)
  IN /\ UNCHANGED <<oInst, oIsNew, oValue, oStored>>
     /\ IF ~ok
        THEN /\ oPending' = oPending \ {p}
             /\ oEv' = OEvent("updateCb", "before hook", EUndef)
             /\ UNCHANGED oHeap
        ELSE /\ oHeap' = [oHeap EXCEPT ![p.oid] = embeddedInstance]
             /\ IF ~OIsValid(embeddedInstance)
                THEN /\ oPending' = oPending \ {p}
                     /\ oEv' = OEvent("updateCb", "invalid item", EUndef)
                ELSE /\ oPending' = (oPending \ {p}) \cup {[p EXCEPT !.kind = "save"]}
                     /\ oEv' = OEvent("before save", "none", EUndef)

\* update and destroy: the callback of modelInstance.save
EmbedsOne_saveCb(p, stored, cbName, after) ==
  LET failed == OValidate(oHeap, oValue) \/ ~stored
  IN /\ UNCHANGED <<oInst, oHeap, oValue>>
     /\ IF failed
        THEN /\ oPending' = oPending \ {p}
             /\ oEv' = OEvent(cbName, "storage", EUndef)
             /\ UNCHANGED <<oIsNew, oStored>>
        ELSE /\ oStored' = OField(oHeap, oValue)
             /\ oIsNew' = FALSE
             /\ oPending' = (oPending \ {p}) \cup {[p EXCEPT !.kind = after]}
             /\ oEv' = OEvent("save", "none", EUndef)

\* update: the callback of notifyObserversOf('after save')
EmbedsOne_updateAfterSaveCb(p, ok) ==
  /\ oPending' = oPending \ {p}
  /\ UNCHANGED <<oInst, oIsNew, oHeap, oValue, oStored>>
  /\ oEv' = OEvent("updateCb", IF ok THEN "none" ELSE "after hook", OField(oHeap, oValue))

\* order.addressItem.destroy(cb): the property is unset, then the observers
\* are asked
EmbedsOne_destroy ==
  IF oValue = 0
  THEN /\ oEv' = OEvent("destroyCb", "none", EUndef)
       /\ UNCHANGED <<oInst, oIsNew, oHeap, oValue, oStored, oPending>>
  ELSE /\ Cardinality(oPending) < MaxCalls
       /\ oValue' = 0
       /\ oPending' = oPending \cup
            {OPend("before delete", "destroy", oValue, NoRec, OField(oHeap, oValue),
                   ONoEvent)}
       /\ oEv' = OEvent("destroy", "none", EUndef)
       /\ UNCHANGED <<oInst, oIsNew, oHeap, oStored>>

\* destroy: the callback of notifyObserversOf('before delete')
EmbedsOne_destroyBeforeDeleteCb(p, ok) ==
  /\ UNCHANGED <<oInst, oIsNew, oHeap, oValue, oStored>>
  /\ IF ok
     THEN /\ oPending' = (oPending \ {p}) \cup {[p EXCEPT !.kind = "save"]}
          /\ oEv' = OEvent("before delete", "none", EUndef)
     ELSE /\ oPending' = oPending \ {p}
          /\ oEv' = OEvent("destroyCb", "before hook", EUndef)

\* destroy: the callback of notifyObserversOf('after delete')
EmbedsOne_destroyAfterDeleteCb(p, ok) ==
  /\ oPending' = oPending \ {p}
  /\ UNCHANGED <<oInst, oIsNew, oHeap, oValue, oStored>>
  /\ oEv' = OEvent("destroyCb", IF ok THEN "none" ELSE "after hook", EUndef)

\* data a caller may hand to create and update
OData == {Rec(Undef, Undef, Undef, tag) : tag \in {"b", Null, Undef}}

O_create ==
  /\ UNCHANGED oOthers
  /\ \E data \in OData : EmbedsOne_create(data)

O_update ==
  /\ UNCHANGED oOthers
  /\ \E data \in OData : EmbedsOne_update(data)

O_destroy ==
  /\ UNCHANGED oOthers
  /\ EmbedsOne_destroy

\* process.nextTick: the handler runs with what the call left for it
O_nextTick ==
  \E p \in oPending :
    /\ p.kind = "tick"
    /\ oPending' = oPending \ {p}
    /\ oEv' = p.ev
    /\ UNCHANGED <<oInst, oIsNew, oHeap, oValue, oStored>>
    /\ UNCHANGED oOthers

\* notifyObserversOf: the observers of the embedded model let the operation
\* pass or fail it
O_hookCb ==
  \E p \in oPending, ok \in BOOLEAN :
    /\ UNCHANGED oOthers
    /\ CASE p.kind = "before save" /\ p.op = "create" -> EmbedsOne_createBeforeSaveCb(p, ok)
         [] p.kind = "before save" /\ p.op = "update" -> EmbedsOne_updateBeforeSaveCb(p, ok)
         [] p.kind = "after save" /\ p.op = "create" -> EmbedsOne_createAfterSaveCb(p, ok)
         [] p.kind = "after save" /\ p.op = "update" -> EmbedsOne_updateAfterSaveCb(p, ok)
         [] p.kind = "before delete" -> EmbedsOne_destroyBeforeDeleteCb(p, ok)
         [] p.kind = "after delete" -> EmbedsOne_destroyAfterDeleteCb(p, ok)
         [] OTHER -> FALSE

\* modelInstance.save / updateAttribute: the storage persists the source or
\* fails
O_saveCb ==
  \E p \in oPending, stored \in BOOLEAN :
    /\ UNCHANGED oOthers
    /\ CASE p.kind \in {"save", "updateAttribute"} /\ p.op = "create" ->
              EmbedsOne_createUpdateCb(p, stored)
         [] p.kind = "save" /\ p.op = "update" ->
              EmbedsOne_saveCb(p, stored, "updateCb", "after save")
         [] p.kind = "save" /\ p.op = "destroy" ->
              EmbedsOne_saveCb(p, stored, "destroyCb", "after delete")
         [] OTHER -> FALSE

ONext ==
  \/ O_create
  \/ O_update
  \/ O_destroy
  \/ O_nextTick
  \/ O_hookCb
  \/ O_saveCb

InitEmbedsOne == OInit /\ SIdle /\ HIdle /\ EIdle /\ RIdle /\ DIdle /\ PIdle /\ QIdle

SpecEmbedsOne == InitEmbedsOne /\ [][ONext]_vars

----------------------------------------------------------------------------
(* EmbedsOne / EmbedsMany: the parent propagation of embedded instances *)

\* wrappers around inst.trigger up to which a lifecycle action is started
MaxWraps == 2

\* the embedded instances, told apart by their identity
PInsts == 1..MaxItems

\* the actions a model instance triggers
PActions == {"save", "destroy", "validate"}

PEvent(op, inst, action) == [op |-> op, inst |-> inst, action |-> action]

\* a lifecycle action under way: the wrappers that have not triggered the
\* parent yet, and the value handed to the pending update of the source
PRun(id, inst, action, phase, left, value) ==
  [id |-> id, inst |-> inst, action |-> action, phase |-> phase, left |-> left,
   value |-> value]

\* the source holds every instance (embedsMany) or the first one, the
\* others having been replaced (embedsOne); each was prepared when built
PInit ==
  /\ pType \in {"embedsOne", "embedsMany"}
  /\ pValue = IF pType = "embedsMany" THEN [i \in PInsts |-> i] ELSE <<1>>
  /\ pStored = pValue
  /\ pWraps = [i \in PInsts |-> 1]
  /\ pRuns = {}
  /\ pEv = PEvent("init", 0, "none")

\* prepareEmbeddedInstance that wraps inst.trigger once only
prepareEmbeddedInstanceOnce(wraps, inst) ==
  IF wraps[inst] > 0 THEN wraps ELSE [wraps EXCEPT ![inst] = 1]

\* prepareEmbeddedInstance(inst): inst.triggerParent !== 'function' compares
\* a function with a string, so inst.trigger is wrapped on every call
prepareEmbeddedInstance(wraps, inst) == [wraps EXCEPT ![inst] = @ + 1]

\* embeddedValue() / embeddedList(): every instance the property holds is
\* prepared
embeddedValue(wraps, value) ==
  [i \in DOMAIN wraps |->
     IF \E k \in 1..Len(value) : value[k] = i
     THEN prepareEmbeddedInstance(wraps, i)[i] ELSE wraps[i]]

\* embeddedList.indexOf(inst), counted from 1; 0 when inst is not in the list
PIndexOf(list, inst) ==
  LET hits == {k \in 1..Len(list) : list[k] = inst}
  IN IF hits = {} THEN 0 ELSE CHOOSE k \in hits : \A j \in hits : k <= j

\* inst.triggerParent of EmbedsMany that leaves the list as it is
EmbedsMany_triggerParentKeeps(value, wraps, r) ==
  [value |-> value, wraps |-> wraps, run |-> [r EXCEPT !.phase = "updateAttribute", !.value = value]]

\* inst.triggerParent installed by EmbedsMany.prototype.prepareEmbeddedInstance
EmbedsMany_triggerParent(value, wraps, r) ==
  LET index == PIndexOf(value, r.inst)
      list == IF r.action = "destroy" /\ index > 0 THEN splice(value, index) ELSE value
  IN IF r.action \in {"save", "destroy"}
     THEN [value |-> list, wraps |-> embeddedValue(wraps, value),
           run |-> [r EXCEPT !.phase = "updateAttribute", !.value = list]]
     ELSE [value |-> value, wraps |-> wraps, run |-> [r EXCEPT !.phase = "tick"]]

\* inst.triggerParent installed by EmbedsOne.prototype.prepareEmbeddedInstance
EmbedsOne_triggerParent(value, wraps, r) ==
  CASE r.action = "save" ->
         [value |-> value, wraps |-> embeddedValue(wraps, value),
          run |-> [r EXCEPT !.phase = "updateAttribute", !.value = value]]
    [] r.action = "destroy" ->
         [value |-> <<>>, wraps |-> wraps,
          run |-> [r EXCEPT !.phase = "save", !.value = <<>>]]
    [] OTHER ->
         [value |-> value, wraps |-> wraps, run |-> [r EXCEPT !.phase = "tick"]]

triggerParent(value, wraps, r) ==
  IF pType = "embedsMany" THEN EmbedsMany_triggerParent(value, wraps, r)
  ELSE EmbedsOne_triggerParent(value, wraps, r)

\* the wrapped work that does not wait for the parent
PWrappedWorkSkips(r, value, wraps) ==
  /\ pRuns' = pRuns \ {r}
  /\ pValue' = value
  /\ pWraps' = wraps
  /\ pEv' = PEvent("done", r.inst, r.action)

\* the work a wrapper hands on: once the work it wraps has called back, the
\* parent is triggered; next(done) waits for its callback
PWrappedWork(r, value, wraps) ==
  LET t == triggerParent(value, wraps, [r EXCEPT !.left = @ - 1])
  IN /\ pRuns' = (pRuns \ {r}) \cup {t.run}
     /\ pValue' = t.value
     /\ pWraps' = t.wraps
     /\ pEv' = PEvent("triggerParent", r.inst, r.action)

\* the callback a wrapper gave to triggerParent: next(done), whatever the
\* error; next is the callback of the wrapper around it, or the trigger's own
PNext(r, value) ==
  IF r.left > 0
  THEN PWrappedWork(r, value, pWraps)
  ELSE /\ pRuns' = pRuns \ {r}
       /\ pValue' = value
       /\ pEv' = PEvent("done", r.inst, r.action)
       /\ UNCHANGED pWraps

\* inst.save() / inst.destroy() / inst.isValid(): inst.trigger(actionName,
\* work, ...) runs through the wrappers down to the original trigger, which
\* starts the work
P_trigger ==
  /\ Cardinality(pRuns) < MaxCalls
  /\ \A r \in pRuns : r.id <= Cardinality(pRuns)
  /\ \A i \in PInsts : pWraps[i] <= MaxWraps
  /\ \E inst \in PInsts, action \in PActions :
       /\ pRuns' = pRuns \cup
            {PRun(Cardinality(pRuns) + 1, inst, action, "work", pWraps[inst], <<>>)}
       /\ pEv' = PEvent("trigger", inst, action)
  /\ UNCHANGED <<pType, pValue, pStored, pWraps>>
  /\ UNCHANGED pOthers

\* the original work has called back: the innermost wrapper goes on
P_workCb ==
  /\ \E r \in pRuns :
       /\ r.phase = "work"
       /\ PWrappedWork(r, pValue, pWraps)
  /\ UNCHANGED <<pType, pStored>>
  /\ UNCHANGED pOthers

\* modelInstance.updateAttribute / save: the storage persists the property
\* or fails, and the callback of triggerParent runs
P_parentCb ==
  /\ \E r \in pRuns, stored \in BOOLEAN :
       /\ r.phase \in {"updateAttribute", "save"}
       /\ LET value == IF stored /\ r.phase = "updateAttribute" /\ pType = "embedsOne"
                       THEN r.value ELSE pValue
          IN /\ pStored' = IF stored THEN value ELSE pStored
             /\ PNext(r, value)
  /\ UNCHANGED pType
  /\ UNCHANGED pOthers

\* process.nextTick(callback) of triggerParent for the other actions
P_nextTick ==
  /\ \E r \in pRuns :
       /\ r.phase = "tick"
       /\ PNext(r, pValue)
  /\ UNCHANGED <<pType, pStored>>
  /\ UNCHANGED pOthers

\* the caller reads the relation's value: embeddedValue() / embeddedList()
P_embeddedValue ==
  /\ \A k \in 1..Len(pValue) : pWraps[pValue[k]] < MaxWraps
  /\ pValue # <<>>
  /\ pWraps' = embeddedValue(pWraps, pValue)
  /\ pEv' = PEvent("embeddedValue", 0, "none")
  /\ UNCHANGED <<pType, pValue, pStored, pRuns>>
  /\ UNCHANGED pOthers

PropagationNext ==
  \/ P_trigger
  \/ P_workCb
  \/ P_parentCb
  \/ P_nextTick
  \/ P_embeddedValue

InitPropagation ==
  PInit /\ SIdle /\ HIdle /\ EIdle /\ RIdle /\ DIdle /\ OIdle /\ QIdle

SpecPropagation == InitPropagation /\ [][PropagationNext]_vars

----------------------------------------------------------------------------
(* ReferencesMany: construction *)

\* ids in the list of one source
MaxIds == 3

REvent(op, err, arg, flag, list) ==
  [op |-> op, err |-> err, arg |-> arg, flag |-> flag, list |-> list]

RPend(kind, where, inst, ev) == [kind |-> kind, where |-> where, inst |-> inst, ev |-> ev]

\* RelationDefinition.referencesMany: the definition it registers
referencesMany(params) ==
  Definition("referencesMany", "Customer", "Order", "orderIds", "id", NoPoly, params.scope,
             NoProps)
    @@ [name |-> IF params.as # Undef THEN params.as ELSE "orders",
        options |-> params.options]

RParams ==
  {[as |-> Undef, scope |-> NoScope, options |-> [prepend |-> prepend]] :
     prepend \in BOOLEAN}
  \cup {[as |-> Undef, scope |-> TagScope, options |-> [prepend |-> FALSE]]}

RDefs == {referencesMany(params) : params \in RParams}

RInitTargets == {Rec("Order", "1", Undef, "a"), Rec("Order", "2", Undef, "b")}

RInit ==
  /\ rDef \in RDefs
  /\ rInst = Rec("Customer", "1", Undef, "a")
  /\ rIds \in {<<>>, <<"1">>}
  /\ rStored = rIds
  /\ rTargets = RInitTargets
  /\ rPending = {}
  /\ rEv = REvent("init", "none", Undef, Undef, rIds)

----------------------------------------------------------------------------
(* ReferencesMany scope methods *)

\* the uniqueness validation the factory installs on modelFrom: the errors
\* it adds to modelInstance.errors
RValidate(ids) ==
  IF idsHaveDuplicates(ids) THEN {EError(rDef.name, "uniqueness")} ELSE {}

\* utils.findIndexOf(arr, target, idEquals), counted from 1; 0 for none
findIndexOf(arr, target) ==
  LET hits == {i \in 1..Len(arr) : idEquals(arr[i], target)}
  IN IF hits = {} THEN 0 ELSE CHOOSE i \in hits : \A j \in hits : i <= j

\* insert of add: the id enters the list in memory, then the source is
\* updated
ReferencesMany_insert(inst, pend) ==
  LET id == inst[rDef.keyTo]
  IN /\ rIds' = IF rDef.options.prepend THEN <<id>> \o rIds ELSE Append(rIds, id)
     /\ rPending' = pend \cup {RPend("add.updateAttribute", NoWhere, inst, Undef)}

\* ReferencesMany.prototype.add, up to the storage call
ReferencesMany_add(acInst, isInst) ==
  IF isInst
    THEN ReferencesMany_insert(acInst, rPending)
    ELSE /\ rPending' = rPending \cup
              {RPend("findOne",
                     applyScope(rDef, rInst, [NoWhere EXCEPT ![rDef.keyTo] = acInst]),
                     NoRec, Undef)}
         /\ UNCHANGED rIds

\* the callback add hands to modelTo.findOne
ReferencesMany_addFindOneCb(p, ans) ==
  IF ans.k # "rec"
    THEN /\ rEv' = REvent("addCb", IF ans.k = "err" THEN "storage" ELSE "none", Null,
                          Undef, rIds)
         /\ rPending' = rPending \ {p}
         /\ UNCHANGED rIds
    ELSE /\ ReferencesMany_insert(ans.r, rPending \ {p})
         /\ rEv' = REvent("insert", "none", Undef, Undef, <<>>)

\* modelInstance.updateAttribute(fk, ids, ...) and the callback add hands it
ReferencesMany_addUpdateCb(p, stored) ==
  LET err == IF RValidate(rIds) # {} THEN "validation"
             ELSE IF ~stored THEN "storage" ELSE "none"
  IN /\ rStored' = IF err = "none" THEN rIds ELSE rStored
     /\ rEv' = REvent("addCb", err, IF err = "none" THEN p.inst["id"] ELSE Null, Undef,
                      rIds)
     /\ rPending' = rPending \ {p}

\* splice(index, 1) on a list
spliceAt(list, index) ==
  [i \in 1..(Len(list) - 1) |-> IF i < index THEN list[i] ELSE list[i + 1]]

\* ReferencesMany.prototype.remove, up to the storage call or the tick
ReferencesMany_remove(id) ==
  LET index == findIndexOf(rIds, id)
  IN IF index > 0
       THEN /\ rIds' = spliceAt(rIds, index)
            /\ rPending' = rPending \cup
                 {RPend("remove.updateAttribute", NoWhere, Rec("Order", id, Undef, Undef),
                        Undef)}
       ELSE /\ rPending' = rPending \cup
                 {RPend("tick", NoWhere, NoRec, REvent("removeCb", "none", id, Undef, rIds))}
            /\ UNCHANGED rIds

\* modelInstance.updateAttribute(fk, ids, ...) and the callback remove hands
\* it: cb(err, inst[fk] || []) throws when the storage passes no instance
ReferencesMany_removeUpdateCb(p, stored, instGiven) ==
  LET err == IF RValidate(rIds) # {} THEN "validation"
             ELSE IF ~stored THEN "storage" ELSE "none"
  IN /\ rStored' = IF err = "none" THEN rIds ELSE rStored
     /\ rEv' = IF err # "none" /\ ~instGiven
                 THEN REvent("removeThrow", "TypeError", p.inst["id"], Undef, rIds)
                 ELSE REvent("removeCb", err, p.inst["id"], Undef, rIds)
     /\ rPending' = rPending \ {p}

\* ReferencesMany.prototype.exists: the list is read at the call, the answer
\* is computed in the tick
ReferencesMany_exists(fkId) ==
  rPending' = rPending \cup
    {RPend("tick", NoWhere, NoRec, REvent("existsCb", "none", fkId, Undef, <<>>))}

\* What findByIds([id], filter) may answer from a table: a storage error,
\* the record with that id when the filter selects it, or an empty list
FindByIdsAnswers(table, where) ==
  {[k |-> "err", r |-> NoRec]}
    \cup {VRec(r) : r \in {x \in table : Matches(x, where)}}
    \cup (IF {x \in table : Matches(x, where)} = {} THEN {VNull} ELSE {})

\* ReferencesMany.prototype.findById, up to the storage call; the pending
\* call remembers the id and the list as they were
ReferencesMany_findById(fkId) ==
  LET filter == applyScope(rDef, rInst, NoWhere)
  IN rPending' = rPending \cup
       {RPend("findByIds", mergeQuery([NoWhere EXCEPT ![rDef.keyTo] = fkId], filter), NoRec,
              REvent("findByIdCb", "none", fkId, Undef, rIds))}

\* the membership check of findById that lets every target pass
ReferencesMany_findByIdCbAny(p, ans) ==
  /\ rPending' = rPending \ {p}
  /\ rEv' = [p.ev EXCEPT !.err = IF ans.k = "err" THEN "storage"
                                  ELSE IF ans.k = "null" THEN "404" ELSE "none",
                          !.list = rIds]

\* the callback findById hands to modelTo.findByIds
ReferencesMany_findByIdCb(p, ans) ==
  /\ rPending' = rPending \ {p}
  /\ rEv' = [p.ev EXCEPT
               !.err = IF ans.k = "err" THEN "storage"
                       ELSE IF ans.k = "null" THEN "404"
                       ELSE IF findIndexOf(rIds, ans.r[rDef.keyTo]) > 0 THEN "none"
                       ELSE "400",
               !.list = rIds]

\* ReferencesMany.prototype.at: findById of ids[index], undefined past the
\* end of the list
ReferencesMany_at(index) ==
  ReferencesMany_findById(IF index < Len(rIds) THEN rIds[index + 1] ELSE Undef)

\* ReferencesMany.prototype.build
ReferencesMany_build(targetModelData) ==
  [applyProperties(rDef, rInst, targetModelData) EXCEPT !["model"] = rDef.modelTo]

\* create that puts the id into the list before the target is saved
ReferencesMany_createEager(targetModelData) ==
  /\ rPending' = rPending \cup
       {RPend("create.save", NoWhere, ReferencesMany_build(targetModelData), Undef)}
  /\ rIds' = Append(rIds, IdStr(1))

\* ReferencesMany.prototype.create, up to inst.save
ReferencesMany_create(targetModelData) ==
  /\ rPending' = rPending \cup
       {RPend("create.save", NoWhere, ReferencesMany_build(targetModelData), Undef)}
  /\ UNCHANGED rIds

\* the targets the storage gave an id to
RCreated == {t \in rTargets : t \notin RInitTargets}

\* the callback create hands to inst.save: the id of the saved target
\* enters the list, then the source is updated
ReferencesMany_createSaveCb(p, saved) ==
  LET inst == [p.inst EXCEPT !["id"] = IdStr(Cardinality(RCreated) + 1)]
      id == inst[rDef.keyTo]
  IN IF ~saved
     THEN /\ rEv' = REvent("createCb", "save", Undef, Undef, rIds)
          /\ rPending' = rPending \ {p}
          /\ UNCHANGED <<rIds, rTargets>>
     ELSE /\ rTargets' = rTargets \cup {inst}
          /\ rIds' = IF rDef.options.prepend THEN <<id>> \o rIds ELSE Append(rIds, id)
          /\ rPending' = (rPending \ {p}) \cup
               {RPend("create.updateAttribute", NoWhere, inst, Undef)}
          /\ rEv' = REvent("create.save", "none", id, Undef, rIds')

\* modelInstance.updateAttribute(fk, ids, ...) and the callback create hands
\* it
ReferencesMany_createUpdateCb(p, stored) ==
  LET err == IF RValidate(rIds) # {} THEN "validation"
             ELSE IF ~stored THEN "storage" ELSE "none"
  IN /\ rStored' = IF err = "none" THEN rIds ELSE rStored
     /\ rEv' = REvent("createCb", err, p.inst["id"], Undef, rIds)
     /\ rPending' = rPending \ {p}

----------------------------------------------------------------------------
(* ReferencesMany: the steps of the program *)

RIds == {"1", "2", "9"}

RCalls == Cardinality(rPending)

R_add ==
  /\ RCalls < MaxCalls
  /\ Len(rIds) < MaxIds
  /\ \E isInst \in BOOLEAN :
       \E acInst \in IF isInst THEN rTargets ELSE RIds :
         /\ ReferencesMany_add(acInst, isInst)
         /\ rEv' = REvent("add", "none", Undef, Undef, <<>>)
  /\ UNCHANGED <<rDef, rInst, rStored, rTargets>>
  /\ UNCHANGED rOthers

R_addFindOneCb ==
  /\ \E p \in rPending :
       /\ p.kind = "findOne"
       /\ \E ans \in FindOneAnswers(rTargets, p.where) : ReferencesMany_addFindOneCb(p, ans)
  /\ UNCHANGED <<rDef, rInst, rStored, rTargets>>
  /\ UNCHANGED rOthers

R_addUpdateCb ==
  /\ \E p \in rPending :
       /\ p.kind = "add.updateAttribute"
       /\ \E stored \in BOOLEAN : ReferencesMany_addUpdateCb(p, stored)
  /\ UNCHANGED <<rDef, rInst, rIds, rTargets>>
  /\ UNCHANGED rOthers

R_remove ==
  /\ RCalls < MaxCalls
  /\ \E id \in RIds :
       /\ ReferencesMany_remove(id)
       /\ rEv' = REvent("remove", "none", Undef, Undef, <<>>)
  /\ UNCHANGED <<rDef, rInst, rStored, rTargets>>
  /\ UNCHANGED rOthers

R_removeUpdateCb ==
  /\ \E p \in rPending :
       /\ p.kind = "remove.updateAttribute"
       /\ \E stored, instGiven \in BOOLEAN : ReferencesMany_removeUpdateCb(p, stored, instGiven)
  /\ UNCHANGED <<rDef, rInst, rIds, rTargets>>
  /\ UNCHANGED rOthers

R_exists ==
  /\ RCalls < MaxCalls
  /\ \E fkId \in RIds :
       /\ ReferencesMany_exists(fkId)
       /\ rEv' = REvent("exists", "none", Undef, Undef, <<>>)
  /\ UNCHANGED <<rDef, rInst, rIds, rStored, rTargets>>
  /\ UNCHANGED rOthers

R_nextTick ==
  /\ \E p \in rPending :
       /\ p.kind = "tick"
       /\ rEv' = IF p.ev.op = "existsCb"
                   THEN [p.ev EXCEPT !.flag = findIndexOf(rIds, p.ev.arg) > 0, !.list = rIds]
                   ELSE p.ev
       /\ rPending' = rPending \ {p}
  /\ UNCHANGED <<rDef, rInst, rIds, rStored, rTargets>>
  /\ UNCHANGED rOthers

\* data a caller may hand to create
RCreateData == {Rec(Undef, Undef, Undef, tag) : tag \in {"a", "b"}}

R_findById ==
  /\ RCalls < MaxCalls
  /\ \E fkId \in RIds :
       /\ ReferencesMany_findById(fkId)
       /\ rEv' = REvent("findById", "none", fkId, Undef, <<>>)
  /\ UNCHANGED <<rDef, rInst, rIds, rStored, rTargets>>
  /\ UNCHANGED rOthers

R_at ==
  /\ RCalls < MaxCalls
  /\ \E index \in 0..Len(rIds) :
       /\ ReferencesMany_at(index)
       /\ rEv' = REvent("at", "none", Undef, Undef, <<>>)
  /\ UNCHANGED <<rDef, rInst, rIds, rStored, rTargets>>
  /\ UNCHANGED rOthers

R_findByIdsCb ==
  /\ \E p \in rPending :
       /\ p.kind = "findByIds"
       /\ \E ans \in FindByIdsAnswers(rTargets, p.where) : ReferencesMany_findByIdCb(p, ans)
  /\ UNCHANGED <<rDef, rInst, rIds, rStored, rTargets>>
  /\ UNCHANGED rOthers

R_create ==
  /\ RCalls < MaxCalls
  /\ Len(rIds) < MaxIds
  /\ Cardinality(RCreated) < MaxCreated
  /\ \E data \in RCreateData :
       /\ ReferencesMany_create(data)
       /\ rEv' = REvent("create", "none", Undef, Undef, <<>>)
  /\ UNCHANGED <<rDef, rInst, rStored, rTargets>>
  /\ UNCHANGED rOthers

R_createSaveCb ==
  /\ \E p \in rPending :
       /\ p.kind = "create.save"
       /\ \E saved \in BOOLEAN : ReferencesMany_createSaveCb(p, saved)
  /\ UNCHANGED <<rDef, rInst, rStored>>
  /\ UNCHANGED rOthers

R_createUpdateCb ==
  /\ \E p \in rPending :
       /\ p.kind = "create.updateAttribute"
       /\ \E stored \in BOOLEAN : ReferencesMany_createUpdateCb(p, stored)
  /\ UNCHANGED <<rDef, rInst, rIds, rTargets>>
  /\ UNCHANGED rOthers

\* the lookups, with remove changing the list under them
RFindNext ==
  \/ R_findById
  \/ R_at
  \/ R_findByIdsCb
  \/ R_exists
  \/ R_nextTick
  \/ R_remove
  \/ R_removeUpdateCb

\* create, with remove changing the list under it
RCreateNext ==
  \/ R_create
  \/ R_createSaveCb
  \/ R_createUpdateCb
  \/ R_nextTick
  \/ R_remove
  \/ R_removeUpdateCb

RNext ==
  \/ R_add
  \/ R_addFindOneCb
  \/ R_addUpdateCb
  \/ R_remove
  \/ R_removeUpdateCb
  \/ R_exists
  \/ R_nextTick

InitRefMany == RInit /\ SIdle /\ HIdle /\ EIdle /\ DIdle /\ OIdle /\ PIdle /\ QIdle

SpecRefMany == InitRefMany /\ [][RNext]_vars

\* the lookups start from the lists add builds of the stored targets
RInitFind ==
  /\ rDef \in RDefs
  /\ rInst = Rec("Customer", "1", Undef, "a")
  /\ rIds \in {<<>>, <<"1">>, <<"1", "2">>, <<"2", "1">>}
  /\ rStored = rIds
  /\ rTargets = RInitTargets
  /\ rPending = {}
  /\ rEv = REvent("init", "none", Undef, Undef, rIds)

InitRefManyFind == RInitFind /\ SIdle /\ HIdle /\ EIdle /\ DIdle /\ OIdle /\ PIdle /\ QIdle

SpecRefManyFind == InitRefManyFind /\ [][RFindNext]_vars

SpecRefManyCreate == InitRefMany /\ [][RCreateNext]_vars

----------------------------------------------------------------------------
(* ReferencesMany.prototype.destroyById *)

\* customer.orders.destroyById(fkId, cb): findById, up to the storage call
ReferencesMany_destroyById(fkId) ==
  LET filter == applyScope(rDef, rInst, NoWhere)
  IN rPending' = rPending \cup
       {RPend("destroyById.findByIds",
              mergeQuery([NoWhere EXCEPT ![rDef.keyTo] = fkId], filter), NoRec,
              REvent("destroyByIdCb", "none", fkId, Undef, rIds))}

\* the callback destroyById hands to findById: the error goes to cb, a
\* record that is amongst the ids goes to self.remove, which splices its id
\* out of the list and updates the source
ReferencesMany_destroyByIdFindCb(p, ans) ==
  LET err == IF ans.k = "err" THEN "storage"
             ELSE IF ans.k = "null" THEN "404"
             ELSE IF findIndexOf(rIds, ans.r[rDef.keyTo]) > 0 THEN "none"
             ELSE "400"
  IN IF err # "none"
       THEN /\ rPending' = rPending \ {p}
            /\ rEv' = [p.ev EXCEPT !.err = err, !.list = rIds]
            /\ UNCHANGED rIds
       ELSE /\ rIds' = spliceAt(rIds, findIndexOf(rIds, ans.r[rDef.keyTo]))
            /\ rPending' = (rPending \ {p}) \cup
                 {RPend("destroyById.updateAttribute", NoWhere, ans.r, p.ev)}
            /\ rEv' = REvent("destroyById.remove", "none", p.ev.arg, Undef, rIds)

\* modelInstance.updateAttribute(fk, ids, ...) of remove under destroyById:
\* cb(err, inst[fk] || []) throws when the storage passes no instance;
\* otherwise the callback of remove takes no notice of err and calls
\* inst.destroy
ReferencesMany_destroyByIdRemoveCb(p, stored, instGiven) ==
  LET err == IF RValidate(rIds) # {} THEN "validation"
             ELSE IF ~stored THEN "storage" ELSE "none"
  IN /\ rStored' = IF err = "none" THEN rIds ELSE rStored
     /\ IF err # "none" /\ ~instGiven
          THEN /\ rEv' = REvent("destroyByIdThrow", "TypeError", p.ev.arg, Undef, rIds)
               /\ rPending' = rPending \ {p}
          ELSE /\ rEv' = REvent("destroyById.removeCb", err, p.ev.arg, Undef, rIds)
               /\ rPending' = (rPending \ {p}) \cup
                    {RPend("destroyById.destroy", NoWhere, p.inst, p.ev)}

\* the callback of inst.destroy in destroyById
ReferencesMany_destroyByIdCb(p, ok) ==
  /\ rPending' = rPending \ {p}
  /\ rTargets' = IF ok THEN rTargets \ {p.inst} ELSE rTargets
  /\ rEv' = [p.ev EXCEPT !.err = IF ok THEN "none" ELSE "storage", !.list = rIds]

R_destroyById ==
  /\ RCalls < MaxCalls
  /\ \E fkId \in RIds :
       /\ ReferencesMany_destroyById(fkId)
       /\ rEv' = REvent("destroyById", "none", fkId, Undef, <<>>)
  /\ UNCHANGED <<rDef, rInst, rIds, rStored, rTargets>>
  /\ UNCHANGED rOthers

R_destroyByIdFindCb ==
  /\ \E p \in rPending :
       /\ p.kind = "destroyById.findByIds"
       /\ \E ans \in FindByIdsAnswers(rTargets, p.where) :
            ReferencesMany_destroyByIdFindCb(p, ans)
  /\ UNCHANGED <<rDef, rInst, rStored, rTargets>>
  /\ UNCHANGED rOthers

R_destroyByIdRemoveCb ==
  /\ \E p \in rPending :
       /\ p.kind = "destroyById.updateAttribute"
       /\ \E stored, instGiven \in BOOLEAN :
            ReferencesMany_destroyByIdRemoveCb(p, stored, instGiven)
  /\ UNCHANGED <<rDef, rInst, rIds, rTargets>>
  /\ UNCHANGED rOthers

R_destroyByIdCb ==
  /\ \E p \in rPending :
       /\ p.kind = "destroyById.destroy"
       /\ \E ok \in BOOLEAN : ReferencesMany_destroyByIdCb(p, ok)
  /\ UNCHANGED <<rDef, rInst, rIds, rStored>>
  /\ UNCHANGED rOthers

\* destroyById and the lookups on one source
RDestroyNext ==
  \/ R_destroyById
  \/ R_destroyByIdFindCb
  \/ R_destroyByIdRemoveCb
  \/ R_destroyByIdCb
  \/ R_findById
  \/ R_findByIdsCb

SpecRefManyDestroy == InitRefManyFind /\ [][RDestroyNext]_vars

----------------------------------------------------------------------------
(* Properties of the BelongsTo / HasOne accessors *)

\* C1: when the storage lookup of the BelongsTo or HasOne getter answers a
\* record whose key (keyTo) differs from the bound instance's key (keyFrom),
\* the handler receives the key-mismatch error (status 400) and no record.
C1_KeyMismatchReported ==
  (/\ sEv.op = "findOneCb"
   /\ sEv.resp.k = "rec"
   /\ sEv.resp.r[sDef.keyTo] # sInst[sDef.keyFrom])
    => (sEv.err = "400" /\ sEv.val.k # "rec")

C1_Witness ==
  /\ sEv.op = "findOneCb"
  /\ sDef.type = "belongsTo"
  /\ sEv.resp.k = "rec"
  /\ NotNullish(sInst[sDef.keyFrom])
  /\ sEv.resp.r[sDef.keyTo] # sInst[sDef.keyFrom]
  /\ sEv.err = "400"

C1_WitnessHasOne ==
  /\ sEv.op = "findOneCb"
  /\ sDef.type = "hasOne"
  /\ sEv.resp.k = "rec"
  /\ sEv.resp.r[sDef.keyTo] # sInst[sDef.keyFrom]
  /\ sEv.err = "400"

\* a getter call without refresh that finds a record in the cache delivers
\* it and asks the storage nothing
CachedGetterAnswers ==
  (sEv.op = "getter" /\ sEv.refresh = "false" /\ sCache.k = "rec")
    => (~sEv.lookup /\ sEv.err = "none" /\ sEv.val = sCache)

\* C2 as stated: cached answer without refresh, and a storage lookup on every
\* getter call with refresh = true, whatever the cache and the key.
C2_RefreshAlwaysQueries ==
  /\ CachedGetterAnswers
  /\ (sEv.op = "getter" /\ sEv.refresh = "true") => sEv.lookup

\* C2 (amended): cached answer without refresh; a getter call with
\* refresh = true issues a storage lookup for HasOne always, and for BelongsTo
\* whenever the instance's foreign key is neither null nor undefined and the
\* call did not throw on the polymorphic discriminator.
C2_RefreshQueriesWhenKeySet ==
  /\ CachedGetterAnswers
  /\ (/\ sEv.op = "getter"
      /\ sEv.refresh = "true"
      /\ sEv.err # "throw"
      /\ (sDef.type = "hasOne" \/ NotNullish(sInst[sDef.keyFrom])))
       => sEv.lookup
  /\ (/\ sEv.op = "getter"
      /\ sDef.type = "belongsTo"
      /\ sEv.err # "throw"
      /\ ~NotNullish(sInst[sDef.keyFrom])
      /\ (sEv.refresh # "false" \/ sCache.k # "rec"))
       => ~sEv.lookup

\* the cache holds a record that only the getter's lookup can have put there
\* (the setter would have copied the instance's tag to it)
C2_Witness ==
  /\ sEv.op = "getter"
  /\ sEv.refresh = "false"
  /\ sDef.properties = ListProps
  /\ sCache = VRec(Rec("Customer", "2", "2", "b"))
  /\ sEv.val = sCache
  /\ ~sEv.lookup

\* C3: the BelongsTo setter called with a target record leaves the source's
\* foreign key equal to the record's primary key and the record in the cache,
\* and the zero-argument accessor returns the cache entry with no storage call.
C3_SetterThenSyncGetter ==
  /\ (sEv.op = "setter" /\ sDef.type = "belongsTo")
       => (/\ sInst[sDef.keyFrom] = sEv.val.r[sDef.keyTo]
           /\ sCache = sEv.val
           /\ BelongsTo_syncGetter = sEv.val)
  /\ (sEv.op = "syncGetter") => (sEv.val = sCache /\ ~sEv.lookup)

C3_Witness ==
  /\ sEv.op = "setter"
  /\ sDef.type = "belongsTo"
  /\ sInst[sDef.keyFrom] = "2"
  /\ sCache.k = "rec"
  /\ sCache.r["id"] = "2"

RegisteredIgnoringCase(name) ==
  NotNullish(name) /\ \E n \in ModelNames : toLowerCase(n) = toLowerCase(name)

\* the polymorphic getter queries the model its discriminator names
PolymorphicQueriesNamedModel ==
  /\ (sEv.op = "getter" /\ sDef.polymorphic.on /\ sEv.lookup)
       => (/\ sEv.arg \in ModelNames
           /\ toLowerCase(sEv.arg) = toLowerCase(sInst[sDef.polymorphic.discriminator]))
  /\ (/\ sEv.op = "getter"
      /\ sDef.polymorphic.on
      /\ RegisteredIgnoringCase(sInst[sDef.polymorphic.discriminator])
      /\ NotNullish(sInst[sDef.keyFrom])
      /\ (sEv.refresh # "false" \/ sCache.k # "rec"))
       => sEv.lookup

UnknownDiscriminator ==
  /\ sEv.op = "getter"
  /\ sDef.polymorphic.on
  /\ NotNullish(sInst[sDef.polymorphic.discriminator])
  /\ ~RegisteredIgnoringCase(sInst[sDef.polymorphic.discriminator])

\* C10 as stated: case-insensitive resolution, and for a discriminator value
\* that names no registered type an error naming the discriminator field,
\* with no storage lookup.
C10_UnknownTypeNamesField ==
  /\ PolymorphicQueriesNamedModel
  /\ UnknownDiscriminator
       => (sEv.err = "throw" /\ sEv.arg = sDef.polymorphic.discriminator /\ ~sEv.lookup)

\* C10 (amended): case-insensitive resolution; for a discriminator value that
\* names no registered type the error is raised with no storage lookup and
\* names the lower-cased discriminator value; the discriminator field is
\* named only when the discriminator is not set.
C10_UnknownTypeNamesValue ==
  /\ PolymorphicQueriesNamedModel
  /\ UnknownDiscriminator
       => (/\ sEv.err = "throw"
           /\ sEv.arg = toLowerCase(sInst[sDef.polymorphic.discriminator])
           /\ ~sEv.lookup)
  /\ (/\ sEv.op = "getter"
      /\ sDef.polymorphic.on
      /\ ~NotNullish(sInst[sDef.polymorphic.discriminator]))
       => (sEv.err = "throw" /\ sEv.arg = sDef.polymorphic.discriminator /\ ~sEv.lookup)

C10_Witness ==
  /\ sEv.op = "getter"
  /\ sDef.polymorphic.on
  /\ sInst[sDef.polymorphic.discriminator] = "POST"
  /\ sEv.lookup
  /\ sEv.arg = "Post"

C10_WitnessUnknown == UnknownDiscriminator /\ sEv.err = "throw"

----------------------------------------------------------------------------
(* Properties of the HasMany / HasManyThrough scope methods *)

\* the targets created through the relation
CreatedHere == hTargets \ HInitTargets

\* the target satisfies the discriminator condition and the custom scope
InScope(t) == Matches(t, applyScope(hDef, hInst, NoWhere))

\* create persists a target whose foreign key is the source's primary key
CreateStampsKey ==
  /\ (hEv.op = "createCb" /\ hEv.err = "none")
       => (hEv.val.k = "rec" /\ hEv.val.r \in hTargets)
  /\ (~IsThrough /\ NotNullish(hInst[hDef.keyFrom]))
       => \A t \in CreatedHere : t[hDef.keyTo] = hInst[hDef.keyFrom]

\* findById of a created target's id, answered by the storage without error
FindsCreated(t) ==
  /\ hEv.op = "findOneCb"
  /\ hEv.resp.k # "err"
  /\ NotNullish(hInst[hDef.keyFrom])
  /\ t[idName] = hEv.arg

\* C4 as stated: create persists a target carrying the source's primary key
\* as its foreign key, and findById of the created id returns that target.
C4_CreateThenFindById ==
  /\ CreateStampsKey
  /\ \A t \in CreatedHere : FindsCreated(t) => (hEv.err = "none" /\ hEv.val = VRec(t))

\* C4 (amended): create persists a target carrying the source's primary key
\* (neither null nor undefined) as its foreign key; findById of the created id
\* returns that target when it satisfies the relation's scope, and reports
\* not-found (404) with no record when it does not.
C4_CreateThenFindByIdInScope ==
  /\ CreateStampsKey
  /\ \A t \in CreatedHere :
       /\ (FindsCreated(t) /\ InScope(t)) => (hEv.err = "none" /\ hEv.val = VRec(t))
       /\ (FindsCreated(t) /\ ~InScope(t)) => (hEv.err = "404" /\ hEv.val.k # "rec")

C4_Witness ==
  /\ hDef.scope = TagScope
  /\ hEv.op = "findOneCb"
  /\ hEv.err = "none"
  /\ hEv.val.k = "rec"
  /\ hEv.val.r \in CreatedHere
  /\ hEv.val.r[hDef.keyTo] = "1"

C4_WitnessOutOfScope ==
  /\ \E t \in CreatedHere : FindsCreated(t) /\ ~InScope(t)
  /\ hEv.err = "404"

\* C5: whenever findById delivers a record, the record is joined to the
\* source: its foreign key is the source's primary key (plain), or the join
\* row the existence check found carries the source's primary key and the
\* record's id (through).
C5_JoinIntegrity ==
  /\ (hEv.op = "findOneCb" /\ hEv.val.k = "rec")
       => hEv.val.r[hDef.keyTo] = hInst[hDef.keyFrom]
  /\ (hEv.op = "findByIdCb" /\ hEv.val.k = "rec")
       => (/\ hEv.row["model"] = hDef.modelThrough
           /\ hEv.row[throughKeys(hDef)[1]] = hInst[hDef.keyFrom]
           /\ hEv.row[throughKeys(hDef)[2]] = hEv.val.r[idName])

C6_WitnessNotFound ==
  /\ hEv.op = "findOneCb"
  /\ hEv.resp.k = "null"
  /\ hEv.err = "404"

----------------------------------------------------------------------------
(* Properties of the EmbedsMany scope methods and validations *)

HasDuplicateIds(list) ==
  idsHaveDuplicates([i \in 1..Len(list) |-> list[i][eDef.keyTo]])

\* a save of the source (in create or destroyById) was refused by validation
\* while the embedded list held duplicate ids
SaveRefusedDuplicates ==
  /\ eEv.op \in {"createCb", "destroyByIdCb"}
  /\ eEv.err = "validation"
  /\ HasDuplicateIds(eList)

\* C7 as stated: for every EmbedsMany relation a list with two equal ids is
\* never persisted, and validating or saving a source that holds one fails
\* with a uniqueness error recorded under the relation's name.
C7_DuplicatesRefusedUnderRelationName ==
  /\ ~HasDuplicateIds(eStored)
  /\ HasDuplicateIds(eList) => EError(eDef.name, "uniqueness") \in EValidate(eList)
  /\ SaveRefusedDuplicates => EError(eDef.name, "uniqueness") \in eEv.errors

\* C7 (amended): for every EmbedsMany relation declared without the
\* polymorphic parameter (the factory installs the uniqueness validation only
\* then) a list with two equal ids is never persisted, and validating or
\* saving a source that holds one fails with a uniqueness error recorded under
\* the embedded property's name, which always differs from the relation's
\* name; for a polymorphic relation no uniqueness error is ever recorded.
C7_DuplicatesRefusedUnderPropertyName ==
  /\ eDef.keyFrom # eDef.name
  /\ "uniqueness" \in eDef.validations
       => (/\ ~HasDuplicateIds(eStored)
           /\ HasDuplicateIds(eList)
                => (/\ EError(eDef.keyFrom, "uniqueness") \in EValidate(eList)
                    /\ EError(eDef.name, "uniqueness") \notin EValidate(eList))
           /\ SaveRefusedDuplicates => EError(eDef.keyFrom, "uniqueness") \in eEv.errors)
  /\ "uniqueness" \notin eDef.validations
       => (/\ EError(eDef.keyFrom, "uniqueness") \notin EValidate(eList)
           /\ EError(eDef.keyFrom, "uniqueness") \notin eEv.errors)

C7_Witness ==
  /\ SaveRefusedDuplicates
  /\ eEv.op = "createCb"
  /\ eDef.name = "emails"
  /\ eEv.errors = {EError("_emails", "uniqueness")}
  /\ ~HasDuplicateIds(eStored)

C7_WitnessPolymorphic ==
  /\ "uniqueness" \notin eDef.validations
  /\ HasDuplicateIds(eStored)

\* no item of the list L the round trip started from carries the created id
FreshId == \A i \in 1..Len(eTrip.base) : eTrip.base[i][eDef.keyTo] # eTrip.id

\* C9 as stated: create(data) on a source whose list is L, followed by
\* destroyById of the created item's id, both successful, leaves the list
\* equal to L, and findById of that id returns no item.
C9_RoundTripRestoresList ==
  eTrip.phase = "done"
    => (eList = eTrip.base /\ EmbedsMany_findById(eList, eTrip.id).k = "null")

\* C9 (amended): the round trip leaves the list equal to L and the id unknown
\* provided no item of L carries the created item's id, which the uniqueness
\* validation guarantees for a relation declared without the polymorphic
\* parameter; when an item of L carries that id, destroyById removes the first
\* item with the id and findById still returns an item.
C9_RoundTripRestoresListFreshId ==
  /\ (eTrip.phase = "done" /\ FreshId)
       => (eList = eTrip.base /\ EmbedsMany_findById(eList, eTrip.id).k = "null")
  /\ (eTrip.phase = "done" /\ ~FreshId)
       => (/\ EmbedsMany_findById(eList, eTrip.id).k = "rec"
           /\ ~eDef.options.prepend => eList # eTrip.base)
  /\ (eTrip.phase # "none" /\ "uniqueness" \in eDef.validations) => FreshId

C9_Witness ==
  /\ eTrip.phase = "done"
  /\ FreshId
  /\ Len(eTrip.base) = 1
  /\ eList = eTrip.base

C9_WitnessEmpty ==
  /\ eTrip.phase = "done"
  /\ eTrip.base = <<>>
  /\ Len(eList) = 0

C9_WitnessSameId ==
  /\ eTrip.phase = "done"
  /\ ~FreshId
  /\ eList # eTrip.base

----------------------------------------------------------------------------
(* Properties of ReferencesMany *)

\* The answer exists(id) would deliver on the list as it is now
ExistsNow(id) == findIndexOf(rIds, id) > 0

Occurs(id, list) == \E i \in 1..Len(list) : list[i] = id

RemoveCompleted == rEv.op = "removeCb" /\ rEv.err = "none"

\* C8: after remove(id) completes, exists(id) reports false and the id occurs
\* neither in the id list the source holds nor in the one persisted with it.
C8_RemoveThenAbsent ==
  RemoveCompleted =>
    /\ ~ExistsNow(rEv.arg)
    /\ ~Occurs(rEv.arg, rIds)
    /\ ~Occurs(rEv.arg, rStored)

\* remove(id) completed with the id still in the list: a rejected add of an
\* id already present had left it there twice
C8_StillPresent ==
  /\ RemoveCompleted
  /\ ExistsNow(rEv.arg)
  /\ Occurs(rEv.arg, rStored)

----------------------------------------------------------------------------
(* Properties of create, update and destroy on BelongsTo / HasOne *)

\* the targets in storage whose foreign key equals the source's primary key
HasOneTargets == {t \in sStore[sDef.modelTo] : t[sDef.keyTo] = sInst[sDef.keyFrom]}

Unscoped == sDef.scope.kind = "none"

\* a step in which the findOrCreate callback of HasOne.create runs
HasOneCreateCompletes ==
  /\ sDef.type = "hasOne"
  /\ \E p \in sPending : p.kind = "findOrCreate" /\ sPending' = sPending \ {p}

C11_WitnessCreated ==
  /\ sDef.type = "hasOne"
  /\ Unscoped
  /\ NotNullish(sInst[sDef.keyFrom])
  /\ sEv.op = "createCb"
  /\ sEv.err = "none"
  /\ HasOneTargets = {sEv.val.r}

\* two targets of a scoped relation carry the source's key
C11_WitnessScoped ==
  /\ sDef.type = "hasOne"
  /\ ~Unscoped
  /\ NotNullish(sInst[sDef.keyFrom])
  /\ Cardinality(HasOneTargets) = 2

----------------------------------------------------------------------------
(* The factories of relation definitions *)

\* factory calls in one run
MaxDecls == 2

\* `if (x)` of JavaScript for a name
Truthy(x) == x \notin {Undef, Null, ""}

\* modelToRef and params.model: a string, a model class, or undefined
DRef(k, v) == [k |-> k, v |-> v]
NoRef == DRef("undefined", Undef)

\* i8n.singularize on the names in use
singularize(s) ==
  CASE s = "books" -> "book"
    [] s = "ghosts" -> "ghost"
    [] s = "items" -> "item"
    [] OTHER -> s

\* i8n.camelize(s, true) on the names in use: the first letter in lower case
camelize(s) ==
  CASE s = "Author" -> "author"
    [] s = "Authors" -> "authors"
    [] s = "Book" -> "book"
    [] s = "Books" -> "books"
    [] OTHER -> s

\* modelTo.pluralModelName
pluralModelName(m) == m \o "s"

RelationTypes ==
  {"belongsTo", "hasMany", "hasOne", "hasAndBelongsToMany", "referencesMany", "embedsOne",
   "embedsMany"}

\* normalizeType for the constants the factories pass
normalizeType(type) == IF type \in RelationTypes THEN type ELSE Null

NoDPoly == [on |-> FALSE, selector |-> Undef, foreignKey |-> Undef, discriminator |-> Undef]

\* normalizePolymorphic(polymorphic, relationName): polymorphic is true or
\* the name of the selector
normalizePolymorphic(polymorphic, relationName) ==
  LET selector == IF polymorphic # "true" THEN polymorphic
                  ELSE IF Truthy(relationName) THEN relationName ELSE "reference"
  IN [on |-> TRUE, selector |-> selector, foreignKey |-> camelize(selector) \o "Id",
      discriminator |-> camelize(selector) \o "Type"]

\* a definition that never is multiple
DDefSingle(name, type, from, keyFrom, keyTo, to, multiple, poly, through) ==
  [name |-> name, type |-> type, modelFrom |-> from, keyFrom |-> keyFrom, keyTo |-> keyTo,
   modelTo |-> to, multiple |-> FALSE, polymorphic |-> poly, modelThrough |-> through]

\* the object handed to new RelationDefinition
DDef(name, type, from, keyFrom, keyTo, to, multiple, poly, through) ==
  [name |-> name, type |-> type, modelFrom |-> from, keyFrom |-> keyFrom, keyTo |-> keyTo,
   modelTo |-> to, multiple |-> multiple, polymorphic |-> poly, modelThrough |-> through]

NoDef == DDef(Undef, Undef, Undef, Undef, Undef, Undef, FALSE, NoDPoly, Undef)

\* a constructor without its assertions
RelationDefinitionUnchecked(definition) == TRUE

\* new RelationDefinition(definition): do its assertions pass
RelationDefinition(definition) ==
  /\ Truthy(definition.name)
  /\ Truthy(normalizeType(definition.type))
  /\ Truthy(definition.modelFrom)
  /\ definition.polymorphic.on \/ Truthy(definition.modelTo)

\* what a factory call comes to: it throws, or it returns the definition,
\* with the models and the relations registered by then
DOut(thrown, def, models, rels) ==
  [thrown |-> thrown, def |-> def, models |-> models, rels |-> rels]

Thrown(models, rels) == DOut(TRUE, NoDef, models, rels)

\* modelFrom.relations[relationName] = definition
Register(rels, d) ==
  {x \in rels : ~(x.modelFrom = d.modelFrom /\ x.name = d.name)} \cup {d}

normalizeRelationAs(params, relationName) ==
  IF relationName.k = "string"
  THEN [params EXCEPT !.as = IF Truthy(@) THEN @ ELSE relationName.v]
  ELSE params

\* lookupModelTo: the name of the model found, or Undef where it throws
lookupModelTo(models, modelToRef, params, sing) ==
  LET name(s) == toLowerCase(IF sing THEN singularize(s) ELSE s)
      first == IF params.model # NoRef THEN params.model ELSE modelToRef
      byModel == IF first.k = "string" THEN lookupModel(models, name(first.v)) ELSE first.v
      byRelation == lookupModel(models, name(IF Truthy(params.as) THEN params.as
                                             ELSE modelToRef.v))
  IN IF modelToRef.k # "string" THEN modelToRef.v
     ELSE IF byModel # Undef THEN byModel ELSE byRelation

\* definition = new RelationDefinition(..); modelFrom.relations[name] = definition
Construct(models, rels, definition) ==
  IF RelationDefinition(definition)
  THEN DOut(FALSE, definition, models, Register(rels, definition))
  ELSE Thrown(models, rels)

RelationDefinition_hasMany(models, rels, modelFrom, modelToRef, params0) ==
  LET params == normalizeRelationAs(params0, modelToRef)
      modelTo == lookupModelTo(models, modelToRef, params, TRUE)
      relationName == IF Truthy(params.as) THEN params.as
                      ELSE camelize(pluralModelName(modelTo))
      polymorphic == IF params.polymorphic # Undef
                     THEN normalizePolymorphic(params.polymorphic, relationName)
                     ELSE NoDPoly
      fk == IF polymorphic.on THEN polymorphic.foreignKey ELSE camelize(modelFrom) \o "Id"
  IN IF modelFrom = Undef \/ modelTo = Undef THEN Thrown(models, rels)
     ELSE Construct(models, rels,
                    DDef(relationName, "hasMany", modelFrom, "id", fk, modelTo, TRUE,
                         polymorphic, params.through))

RelationDefinition_belongsTo(models, rels, modelFrom, modelToRef, params0) ==
  IF modelFrom = Undef THEN Thrown(models, rels)
  ELSE IF params0.polymorphic # Undef
  THEN LET relationName == IF Truthy(params0.as) THEN params0.as
                           ELSE IF modelToRef.k = "string" THEN modelToRef.v ELSE Null
           polymorphic == normalizePolymorphic(params0.polymorphic, relationName)
       IN Construct(models, rels,
                    DDef(relationName, "belongsTo", modelFrom, polymorphic.foreignKey, "id",
                         Null, FALSE, polymorphic, Undef))
  ELSE LET params == normalizeRelationAs(params0, modelToRef)
           modelTo == lookupModelTo(models, modelToRef, params, FALSE)
           relationName == IF Truthy(params.as) THEN params.as ELSE camelize(modelTo)
       IN IF modelTo = Undef THEN Thrown(models, rels)
          ELSE Construct(models, rels,
                         DDef(relationName, "belongsTo", modelFrom, relationName \o "Id",
                              "id", modelTo, FALSE, NoDPoly, Undef))

RelationDefinition_hasOne(models, rels, modelFrom, modelToRef, params0) ==
  LET params == normalizeRelationAs(params0, modelToRef)
      modelTo == lookupModelTo(models, modelToRef, params, FALSE)
      relationName == IF Truthy(params.as) THEN params.as ELSE camelize(modelTo)
      polymorphic == IF params.polymorphic # Undef
                     THEN normalizePolymorphic(params.polymorphic, relationName)
                     ELSE NoDPoly
      fk == IF polymorphic.on THEN polymorphic.foreignKey ELSE camelize(modelFrom) \o "Id"
  IN IF modelFrom = Undef \/ modelTo = Undef THEN Thrown(models, rels)
     ELSE Construct(models, rels,
                    DDef(relationName, "hasOne", modelFrom, "id", fk, modelTo, FALSE,
                         polymorphic, Undef))

NoParams == [as |-> Undef, model |-> NoRef, polymorphic |-> Undef, through |-> Undef]

\* hasAndBelongsToMany: the join model is looked up or defined, it is given a
\* belongsTo to either side, and the relation itself is a hasMany through it
RelationDefinition_hasAndBelongsToMany(models, rels, modelFrom, modelToRef, params0) ==
  LET params == normalizeRelationAs(params0, modelToRef)
      modelTo == lookupModelTo(models, modelToRef, params, TRUE)
      name1 == modelFrom \o modelTo
      name2 == modelTo \o modelFrom
      through == IF params.through # Undef THEN params.through
                 ELSE IF lookupModel(models, name1) # Undef THEN lookupModel(models, name1)
                 ELSE IF lookupModel(models, name2) # Undef THEN lookupModel(models, name2)
                 ELSE name1
      models1 == models \cup {through}
      relationName == IF Truthy(params.as) THEN params.as
                      ELSE camelize(pluralModelName(modelTo))
      polymorphic == normalizePolymorphic(params.polymorphic, relationName)
      declared == \E x \in rels : x.modelFrom = through /\ x.name = polymorphic.selector
      rels1 == IF params.polymorphic # Undef
               THEN IF declared THEN rels
                    ELSE RelationDefinition_belongsTo(
                           models1, rels, through, DRef("string", polymorphic.selector),
                           [NoParams EXCEPT !.polymorphic = "true"]).rels
               ELSE RelationDefinition_belongsTo(models1, rels, through,
                                                 DRef("model", modelFrom), NoParams).rels
      rels2 == RelationDefinition_belongsTo(models1, rels1, through, DRef("model", modelTo),
                                            NoParams).rels
  IN IF modelFrom = Undef \/ modelTo = Undef THEN Thrown(models, rels)
     ELSE IF params.through = Undef /\ params.polymorphic # Undef THEN Thrown(models, rels)
     ELSE RelationDefinition_hasMany(
            models1, rels2, modelFrom, DRef("model", modelTo),
            [NoParams EXCEPT !.as = params.as, !.through = through,
                             !.polymorphic = IF params.polymorphic # Undef
                                             THEN polymorphic.selector ELSE Undef])

RelationDefinition_embedsOne(models, rels, modelFrom, modelToRef, params0) ==
  LET params == normalizeRelationAs(params0, modelToRef)
      modelTo == lookupModelTo(models, modelToRef, params, FALSE)
      relationName == IF Truthy(params.as) THEN params.as ELSE camelize(modelTo) \o "Item"
      p0 == camelize(modelTo)
      propertyName == IF relationName = p0 THEN "_" \o p0 ELSE p0
  IN IF modelFrom = Undef \/ modelTo = Undef THEN Thrown(models, rels)
     ELSE Construct(models, rels,
                    DDef(relationName, "embedsOne", modelFrom, propertyName, "id", modelTo,
                         FALSE, NoDPoly, Undef))

RelationDefinition_embedsMany(models, rels, modelFrom, modelToRef, params0) ==
  LET params == normalizeRelationAs(params0, modelToRef)
      modelTo == lookupModelTo(models, modelToRef, params, TRUE)
      relationName == IF Truthy(params.as) THEN params.as ELSE camelize(modelTo) \o "List"
      p0 == camelize(pluralModelName(modelTo))
      propertyName == IF relationName = p0 THEN "_" \o p0 ELSE p0
  IN IF modelFrom = Undef \/ modelTo = Undef THEN Thrown(models, rels)
     ELSE Construct(models, rels,
                    DDef(relationName, "embedsMany", modelFrom, propertyName, "id", modelTo,
                         TRUE, NoDPoly, Undef))

RelationDefinition_referencesMany(models, rels, modelFrom, modelToRef, params0) ==
  LET params == normalizeRelationAs(params0, modelToRef)
      modelTo == lookupModelTo(models, modelToRef, params, TRUE)
      relationName == IF Truthy(params.as) THEN params.as
                      ELSE camelize(pluralModelName(modelTo))
  IN IF modelFrom = Undef \/ modelTo = Undef THEN Thrown(models, rels)
     ELSE Construct(models, rels,
                    DDef(relationName, "referencesMany", modelFrom,
                         camelize(modelTo) \o "Ids", "id", modelTo, TRUE, NoDPoly, Undef))

\* the models a program defines before it declares relations
DInitModels ==
  { {"Author", "Book", "Link"},
    {"Author", "Book", "Link", "bookauthor"},
    {"Author", "Book", "Link", "authorbook", "BookAuthor"} }

DEvent(op, out, modelFrom, modelToRef, params) ==
  [op |-> op, thrown |-> out.thrown, def |-> out.def, modelFrom |-> modelFrom,
   modelToRef |-> modelToRef, params |-> params]

DInit ==
  /\ dModels \in DInitModels
  /\ dRelations = {}
  /\ dCalls = 0
  /\ dEv = DEvent("init", Thrown({}, {}), Undef, NoRef, NoParams)

\* what the callers hand to the factories
DParams ==
  { NoParams,
    [NoParams EXCEPT !.as = "items"],
    [NoParams EXCEPT !.polymorphic = "true"] }

DInput(modelFrom, modelToRef, params) ==
  [modelFrom |-> modelFrom, modelToRef |-> modelToRef, params |-> params]

\* a source and a reference to the target with each of the params, a call
\* that names the target in params.model, and the calls that lack the source,
\* the target or both names
DInputs ==
  {DInput(modelFrom, modelToRef, params) :
     modelFrom \in {"Author", "Book"},
     modelToRef \in {DRef("string", "books"), DRef("string", "ghosts"), DRef("model", "Author")},
     params \in DParams}
  \cup {DInput("Author", DRef("string", "ghosts"),
               [NoParams EXCEPT !.model = DRef("model", "Book")]),
        DInput(Undef, DRef("model", "Author"), NoParams),
        DInput("Author", NoRef, NoParams),
        DInput("Author", NoRef, [NoParams EXCEPT !.polymorphic = "true"])}

\* with a through model given
DThroughInputs ==
  DInputs \cup
    {DInput("Author", DRef("string", "books"), [NoParams EXCEPT !.through = "Link",
                                                                 !.polymorphic = poly]) :
       poly \in {Undef, "true"}}

\* one factory call, its outcome written to the registries
D_call(op, out, modelFrom, modelToRef, params) ==
  /\ dCalls' = dCalls + 1
  /\ dModels' = out.models
  /\ dRelations' = out.rels
  /\ dEv' = DEvent(op, out, modelFrom, modelToRef, params)
  /\ UNCHANGED dOthers

D_hasMany ==
  /\ dCalls < MaxDecls
  /\ \E in \in DThroughInputs :
       D_call("hasMany",
              RelationDefinition_hasMany(dModels, dRelations, in.modelFrom, in.modelToRef,
                                         in.params),
              in.modelFrom, in.modelToRef, in.params)

D_belongsTo ==
  /\ dCalls < MaxDecls
  /\ \E in \in DInputs :
       D_call("belongsTo",
              RelationDefinition_belongsTo(dModels, dRelations, in.modelFrom, in.modelToRef,
                                           in.params),
              in.modelFrom, in.modelToRef, in.params)

D_hasOne ==
  /\ dCalls < MaxDecls
  /\ \E in \in DInputs :
       D_call("hasOne",
              RelationDefinition_hasOne(dModels, dRelations, in.modelFrom, in.modelToRef,
                                        in.params),
              in.modelFrom, in.modelToRef, in.params)

D_hasAndBelongsToMany ==
  /\ dCalls < MaxDecls
  /\ \E in \in DThroughInputs :
       D_call("hasAndBelongsToMany",
              RelationDefinition_hasAndBelongsToMany(dModels, dRelations, in.modelFrom,
                                                     in.modelToRef, in.params),
              in.modelFrom, in.modelToRef, in.params)

D_embedsOne ==
  /\ dCalls < MaxDecls
  /\ \E in \in DInputs :
       D_call("embedsOne",
              RelationDefinition_embedsOne(dModels, dRelations, in.modelFrom, in.modelToRef,
                                           in.params),
              in.modelFrom, in.modelToRef, in.params)

D_embedsMany ==
  /\ dCalls < MaxDecls
  /\ \E in \in DInputs :
       D_call("embedsMany",
              RelationDefinition_embedsMany(dModels, dRelations, in.modelFrom, in.modelToRef,
                                            in.params),
              in.modelFrom, in.modelToRef, in.params)

D_referencesMany ==
  /\ dCalls < MaxDecls
  /\ \E in \in DInputs :
       D_call("referencesMany",
              RelationDefinition_referencesMany(dModels, dRelations, in.modelFrom, in.modelToRef,
                                                in.params),
              in.modelFrom, in.modelToRef, in.params)

DNext ==
  \/ D_hasMany
  \/ D_belongsTo
  \/ D_hasOne
  \/ D_hasAndBelongsToMany
  \/ D_embedsOne
  \/ D_embedsMany
  \/ D_referencesMany

InitFactories == DInit /\ SIdle /\ HIdle /\ EIdle /\ RIdle /\ OIdle /\ PIdle /\ QIdle

SpecFactories == InitFactories /\ [][DNext]_vars

----------------------------------------------------------------------------
(* Properties of HasManyThrough.create *)

\* the handler of a through create was handed the error of a join row
JoinRowErrorReported ==
  /\ hEv.op = "createCb"
  /\ hEv.err = "storage"
  /\ hEv.resp # VUndef

InStorage(to) == \E t \in hTargets : t[idName] = to[idName]

InCache(to) ==
  /\ hCache.k = "list"
  /\ \E i \in 1..Len(hCache.l) : hCache.l[i][idName] = to[idName]

\* a step in which the handler of a through create gets the error of a join row
JoinRowErrorStep ==
  /\ hEv' # hEv
  /\ hEv'.op = "createCb"
  /\ hEv'.err = "storage"
  /\ hEv'.resp # VUndef

\* the destroy of the failed item's target was pending and answers in this step
UndoAnswersIn(c) ==
  /\ c.call = hEv'.arg
  /\ \E i \in 1..Len(c.items) :
       /\ c.items[i].step = "undo"
       /\ c.items[i].to = hEv'.resp.r
       /\ \A d \in hCreates' : d.call = c.call => d.items[i].step # "undo"

\* C12 as stated: when the join row of a created target fails, the target is
\* destroyed before the handler receives the join row's error, so that the
\* target no longer is in storage, and it never is in the relation's cache.
C12_FailedJoinRowLeavesNoTarget ==
  JoinRowErrorReported => (~InStorage(hEv.resp.r) /\ ~InCache(hEv.resp.r))

\* C12 (amended): when the join row of a created target fails, the destroy of
\* the target is requested and has answered before the handler receives the
\* join row's error; the target is gone from storage unless that destroy
\* failed, and it never is in the relation's cache.
C12_FailedJoinRowDestroysTarget ==
  /\ [](JoinRowErrorReported =>
          /\ ~InCache(hEv.resp.r)
          /\ hEv.row = NoRec => ~InStorage(hEv.resp.r))
  /\ [][JoinRowErrorStep => \E c \in hCreates : UndoAnswersIn(c)]_vars

\* the join row of a single create failed and its target was destroyed
C12_Witness ==
  /\ JoinRowErrorReported
  /\ hEv.flag = "item"
  /\ hEv.row = NoRec
  /\ ~InStorage(hEv.resp.r)

\* the join row failed, and so did the destroy of the target
C12_WitnessLeft ==
  /\ JoinRowErrorReported
  /\ hEv.flag = "item"
  /\ hEv.row # NoRec
  /\ InStorage(hEv.resp.r)

\* the handler of the array call c is called in this step
ArrayReportStep(c) ==
  /\ c \in hCreates
  /\ c.isArray
  /\ c.stage = "relations"
  /\ hCreates' # hCreates
  /\ hEv'.op = "createCb"
  /\ hEv'.arg = c.call

\* the targets of call c whose join row is being undone
Undoing(c) == {c.items[i].to : i \in {j \in 1..Len(c.items) : c.items[j].step = "undo"}}

\* C13: for an array, createRelation is started for every created target in
\* the one step that follows modelTo.create; the handler is called once, with
\* success only when no item failed and every item's join row step is over, or
\* with the first error; a failing item takes away no join row and no target
\* other than its own.
C13_ArrayCreate ==
  /\ [][\A c \in hCreates :
          (c.isArray /\ c.stage = "create" /\ hEv'.op = "created" /\ hEv'.arg = c.call)
            => \E d \in hCreates' :
                 /\ d.call = c.call
                 /\ \A i \in 1..Len(d.items) : d.items[i].step = "findOrCreate"]_vars
  /\ [][\A c \in hCreates :
          ArrayReportStep(c) =>
            /\ ~c.reported
            /\ \A i \in 1..Len(c.items) : c.items[i].step \notin {"failed", "left"}
            /\ hEv'.err = "none" =>
                 /\ \A d \in hCreates' : d.call # c.call
                 /\ \A i \in 1..Len(c.items) :
                      c.items[i].e = "none" /\ c.items[i].step \in {"done", "findOrCreate"}
                      /\ InStorage(c.items[i].to)']_vars
  /\ [][/\ hJoins \subseteq hJoins'
        /\ \A c \in hCreates :
             (c.isArray /\ c.stage = "relations") =>
               \A i \in 1..Len(c.items) :
                 (InStorage(c.items[i].to) /\ ~InStorage(c.items[i].to)')
                   => c.items[i].to \in Undoing(c)]_vars

\* both items of an array got their join rows and the handler was told so
C13_Witness ==
  /\ hEv.op = "createCb"
  /\ hEv.flag = "array"
  /\ hEv.err = "none"
  /\ Cardinality(hTargets \ HInitTargets) = 2
  /\ \A t \in hTargets \ HInitTargets : \E j \in hJoins : j["fk2"] = t[idName]

\* one item of an array failed and was undone, the other one's target and
\* join row are there
C13_WitnessPartial ==
  /\ hCreates = {}
  /\ hEv.op \in {"createCb", "next"}
  /\ hEv.flag \in {"array", "ignored"}
  /\ hEv.resp # VUndef
  /\ ~InStorage(hEv.resp.r)
  /\ \E t \in hTargets \ HInitTargets : \E j \in hJoins : j["fk2"] = t[idName]

----------------------------------------------------------------------------
(* Properties of update through a relation *)

\* the payload holds a value for property f that is not the record's own
Overrides(data, inst, f) == data[f] # Undef /\ ~idEquals(data[f], inst[f])

\* the foreign key of a relation: on the source of a belongsTo, on the target
\* of a hasOne or hasMany
ForeignKey(def) == IF def.type = "belongsTo" THEN def.keyFrom ELSE def.keyTo

UpdateLookupAnswers(p) ==
  /\ p \in sPending \ sPending'
  /\ p.op = "update"
  /\ p.kind \in {"fetch", "fetchTick"}

UpdateByIdLookupAnswers(p) ==
  /\ p \in hPending \ hPending'
  /\ p.kind = "updateFind"

C14_WitnessHasOne ==
  /\ sInst # NoRec
  /\ sDef.type = "hasOne"
  /\ sEv.op = "updateCb"
  /\ sEv.err = "fk override"
  /\ sEv.resp.r \in sStore[sDef.modelTo]

\* BelongsTo.update refused a payload that names another primary key
C14_WitnessBelongsTo ==
  /\ sInst # NoRec
  /\ sDef.type = "belongsTo"
  /\ sEv.op = "updateCb"
  /\ sEv.err = "fk override"

\* BelongsTo.update wrote a foreign key property the payload named
C14_WitnessForeignKeyWritten ==
  /\ sInst # NoRec
  /\ sDef.type = "belongsTo"
  /\ sEv.op = "updateCb"
  /\ sEv.err = "none"
  /\ sEv.val.r["fk"] # sEv.resp.r["fk"]

----------------------------------------------------------------------------
(* Properties of error delivery *)

\* C15 as stated: the errors of a relation operation reach the caller through
\* the completion handler; the accessor called with a handler never throws to
\* its caller.
C15_ErrorsReachTheHandler ==
  sEv.op = "getter" => sEv.err # "throw"

----------------------------------------------------------------------------
(* Properties of the cache after a mutation *)

\* C16 as stated: once destroy has succeeded through a BelongsTo or HasOne
\* relation, the synchronous getter, which answers with the cache, does not
\* return the record that destroy unlinked or deleted.
C16_GetterForgetsDestroyed ==
  (sEv.op = "destroyCb" /\ sEv.err = "none") => getCache # sEv.resp

----------------------------------------------------------------------------
(* Properties of the factories *)

\* the models whose name is n but for the case of its letters
NamedIgnoringCase(models, n) == {m \in models : toLowerCase(m) = toLowerCase(n)}

\* some name the call was given names a registered model
TargetNamed(ev) ==
  \/ ev.modelToRef.k = "model"
  \/ /\ ev.modelToRef.k = "string"
     /\ \/ ev.params.model.k = "model"
        \/ \E n \in {ev.modelToRef.v, ev.params.as} :
             /\ Truthy(n)
             /\ NamedIgnoringCase(dModels, n) \cup NamedIgnoringCase(dModels, singularize(n))
                  # {}

PolymorphicBelongsTo(ev) == ev.op = "belongsTo" /\ ev.params.polymorphic # Undef

\* the call gives no way to tell the source, the target or the name
CannotBeDetermined(ev) ==
  \/ ev.modelFrom = Undef
  \/ ~PolymorphicBelongsTo(ev) /\ ~TargetNamed(ev)
  \/ PolymorphicBelongsTo(ev) /\ ~Truthy(ev.params.as) /\ ev.modelToRef.k # "string"

\* C17: a factory call that cannot tell the relation's name, its source or
\* its non-polymorphic target throws, returns no definition and registers
\* nothing; a definition that is returned has its name, type and source, has
\* its target unless it is polymorphic, and is in the registry.
C17_ConfigurationErrorsThrown ==
  /\ [](dEv.op # "init" =>
          /\ CannotBeDetermined(dEv) => dEv.thrown
          /\ dEv.thrown => dEv.def = NoDef
          /\ ~dEv.thrown =>
               /\ Truthy(dEv.def.name)
               /\ dEv.def.type \in RelationTypes
               /\ dEv.def.modelFrom = dEv.modelFrom
               /\ dEv.def.polymorphic.on \/ dEv.def.modelTo \in dModels
               /\ dEv.def \in dRelations)
  /\ [][(dCalls' # dCalls /\ dEv'.thrown)
          => (dRelations' = dRelations /\ dModels' = dModels)]_vars

\* a call that names no registered model threw and left the registry alone
C17_Witness ==
  /\ dEv.op \in RelationTypes
  /\ dEv.modelFrom = "Author"
  /\ dEv.modelToRef = DRef("string", "ghosts")
  /\ dEv.thrown
  /\ dRelations # {}

\* a polymorphic belongsTo without a name threw
C17_WitnessNoName ==
  /\ PolymorphicBelongsTo(dEv)
  /\ dEv.modelToRef = NoRef
  /\ dEv.thrown

MultipleTypes == {"hasMany", "embedsMany", "referencesMany"}

\* C18: the definitions in the registry are multiple exactly when they are
\* of a to-many type, which they are exactly when the factory called was
\* hasMany, hasAndBelongsToMany, embedsMany or referencesMany, and those that
\* are not polymorphic have a registered target model.
C18_DescriptorInvariants ==
  /\ \A d \in dRelations :
       /\ d.multiple <=> d.type \in MultipleTypes
       /\ ~d.polymorphic.on => d.modelTo \in dModels
  /\ (dEv.op # "init" /\ ~dEv.thrown) =>
       /\ dEv.def.multiple <=> dEv.op \in MultipleTypes \cup {"hasAndBelongsToMany"}
       /\ dEv.def.type = IF dEv.op = "hasAndBelongsToMany" THEN "hasMany" ELSE dEv.op

\* a to-many and a to-one definition are registered
C18_Witness ==
  /\ \E d \in dRelations : d.multiple /\ d.type = "embedsMany"
  /\ \E d \in dRelations : ~d.multiple /\ d.type = "hasOne"

\* hasAndBelongsToMany registered a hasMany through the join model
C18_WitnessThrough ==
  /\ dEv.op = "hasAndBelongsToMany"
  /\ ~dEv.thrown
  /\ dEv.def.multiple
  /\ dEv.def.modelThrough \in dModels

\* a hasMany whose through model a hasAndBelongsToMany looked up or defined
AutoThrough(d) == d.type = "hasMany" /\ d.modelThrough \notin {Undef, "Link"}

\* the two definitions of a hasAndBelongsToMany pair
Mirrored(d1, d2) ==
  /\ AutoThrough(d1)
  /\ AutoThrough(d2)
  /\ d1.modelFrom = d2.modelTo
  /\ d1.modelTo = d2.modelFrom

BothNamesTaken(a, b) ==
  /\ a # b
  /\ NamedIgnoringCase(dModels, a \o b) # {}
  /\ NamedIgnoringCase(dModels, b \o a) # {}

\* a hasAndBelongsToMany without a through model returns in this step
JoinTypeDerived ==
  /\ dCalls' # dCalls
  /\ dEv'.op = "hasAndBelongsToMany"
  /\ dEv'.params.through = Undef
  /\ ~dEv'.thrown

C19_Witness ==
  /\ \E d1, d2 \in dRelations :
       /\ Mirrored(d1, d2)
       /\ d1.modelFrom = "Author"
       /\ d1.modelTo = "Book"
       /\ d1.modelThrough = "AuthorBook"
       /\ d2.modelThrough = "AuthorBook"

C19_WitnessBothNames ==
  /\ \E d1, d2 \in dRelations :
       /\ Mirrored(d1, d2)
       /\ d1.modelThrough # d2.modelThrough

----------------------------------------------------------------------------
(* Properties of the hooks around the embedding step *)

BeforeHooks == {"before save", "before delete"}
AfterHooks == {"after save", "after delete"}

\* the 'before' hook is being notified while the property is still as the
\* call found it
BeforeHookSeesUntouchedField ==
  \A p \in oPending : p.kind \in BeforeHooks => OField(oHeap, oValue) = p.base

\* the 'after' hook is notified in the step that persisted the property
AfterHookFollowsSave ==
  \A q \in oPending' \ oPending :
    q.kind \in AfterHooks =>
      /\ \E p \in oPending \ oPending' : p.kind \in {"save", "updateAttribute"} /\ p.op = q.op
      /\ oStored' = OField(oHeap', oValue')

\* an error of the 'before' hook leaves the property as the call found it,
\* in memory and in the storage, and no 'after' hook is notified
BeforeHookErrorLeavesField ==
  \A p \in oPending \ oPending' :
    (p.kind \in BeforeHooks /\ oEv'.err = "before hook") =>
      /\ OField(oHeap', oValue') = p.base
      /\ oStored' = oStored
      /\ \A q \in oPending' : q.kind \notin AfterHooks

\* C20: on a non-persistent EmbedsOne relation, create, update and destroy
\* notify the 'before' hook of the target model before the embedded property
\* of the source is modified or saved, notify the 'after' hook only after the
\* source was saved, and after an error of the 'before' hook the property is
\* neither changed nor saved and the 'after' hook is not notified.
C20_EmbeddedHookOrdering ==
  [][/\ BeforeHookSeesUntouchedField'
     /\ AfterHookFollowsSave
     /\ BeforeHookErrorLeavesField]_vars

\* what of C20 the three operations do keep: the source is saved only
\* after the 'before' hook passed, the 'after' hook follows the save, and
\* an error of the 'before' hook leaves the storage alone and ends the call
C20_StorageFollowsTheHooks ==
  [][/\ AfterHookFollowsSave
     /\ (oStored' # oStored =>
           \E p \in oPending \ oPending' : p.kind \in {"save", "updateAttribute"})
     /\ \A q \in oPending' \ oPending :
          q.kind \in {"save", "updateAttribute"} =>
            \E p \in oPending \ oPending' : p.kind \in BeforeHooks /\ p.op = q.op
     /\ \A p \in oPending \ oPending' :
          (p.kind \in BeforeHooks /\ oEv'.err = "before hook") =>
            oStored' = oStored /\ \A q \in oPending' : q.kind \notin AfterHooks]_vars

\* destroy has unset the property and its 'before delete' hook fails
C20_WitnessDestroyRefused ==
  /\ oEv.op = "destroyCb" /\ oEv.err = "before hook"
  /\ oValue = 0
  /\ oStored # EUndef

\* create has replaced the property and its 'before save' hook fails
C20_WitnessCreateRefused ==
  /\ oEv.op = "createCb" /\ oEv.err = "hook"
  /\ oValue = 2
  /\ oStored = OField(oHeap, 1)

----------------------------------------------------------------------------
(* Properties of the parent propagation *)

PersistPhases == {"updateAttribute", "save"}

\* the update of the source a wrapper issues carries the property as it is
\* now, without the instance when the action is destroy
UpdateCarriesCurrentValue ==
  \A q \in pRuns' \ pRuns :
    q.phase \in PersistPhases =>
      /\ q.action \in {"save", "destroy"}
      /\ q.value = pValue'
      /\ q.action = "destroy" =>
           /\ PIndexOf(pValue', q.inst) = 0
           /\ pType = "embedsOne" => pValue' = <<>>

\* once the work of a save or destroy has called back, an update of the
\* source is under way
WorkIsPropagated ==
  \A r \in pRuns \ pRuns' :
    (r.phase = "work" /\ r.action \in {"save", "destroy"}) =>
      \E q \in pRuns' : q.id = r.id /\ q.phase \in PersistPhases

\* a save or destroy completes in the step of a persistence callback
CompletesAfterPersistence ==
  (pEv'.op = "done" /\ pEv'.action \in {"save", "destroy"}) =>
    \E r \in pRuns \ pRuns' :
      r.inst = pEv'.inst /\ r.action = pEv'.action /\ r.phase \in PersistPhases

\* C21: a 'save' triggered on an embedded instance updates the source's
\* property with the current embedded value; a 'destroy' removes the
\* instance from the property (unset for EmbedsOne, spliced out of the list
\* for EmbedsMany) and persists the source; the instance's own action
\* completes only after the callback of the source's persistence has run.
C21_ParentPropagation ==
  [][UpdateCarriesCurrentValue /\ WorkIsPropagated /\ CompletesAfterPersistence]_vars

\* a destroy of an embedded list item has completed: the item is out of the
\* list and the list is persisted without it
C21_Witness ==
  /\ pType = "embedsMany"
  /\ pEv = PEvent("done", 1, "destroy")
  /\ PIndexOf(pValue, 1) = 0
  /\ pStored = pValue

\* a destroy of the embedded instance of an EmbedsOne has completed
C21_WitnessEmbedsOne ==
  /\ pType = "embedsOne"
  /\ pEv = PEvent("done", 1, "destroy")
  /\ pValue = <<>>
  /\ pStored = <<>>

\* a save has completed although the storage refused the update
C21_WitnessSaveNotStored ==
  /\ pType = "embedsMany"
  /\ pEv = PEvent("done", 2, "save")
  /\ pStored # pValue

----------------------------------------------------------------------------
(* Properties of the ReferencesMany id list *)

\* C22: once every call on a ReferencesMany relation has run to completion,
\* the source's id list holds no id twice, neither on the instance nor as
\* persisted, and an add that the duplicate check rejected has left the list
\* on the instance as it is persisted.
C22_IdListUnique ==
  rPending = {} =>
    /\ ~idsHaveDuplicates(rIds)
    /\ ~idsHaveDuplicates(rStored)
    /\ (rEv.op = "addCb" /\ rEv.err = "validation") => rIds = rStored

\* what the validation does keep: the persisted list never holds an id twice
C22_StoredListUnique == ~idsHaveDuplicates(rStored)

----------------------------------------------------------------------------
(* Properties of the ReferencesMany lookups *)

\* the targets a lookup's filter selects
RSelected(where) == {t \in rTargets : Matches(t, where)}

RInStorage(id) == \E t \in rTargets : t[rDef.keyTo] = id

\* exists(id) answers whether the id is in the list
ExistsAnswersMembership ==
  rEv'.op = "existsCb" => (rEv'.flag <=> Occurs(rEv'.arg, rIds'))

\* C23: findById(id) and at(index) deliver a target only if its id is in the
\* source's id list; a target in storage whose id is not in the list yields
\* the key-mismatch error (400), a target absent from storage yields not
\* found (404); exists(id) is true exactly when id is in the list.
C23_MembershipCheck ==
  [][/\ \A p \in rPending \ rPending' :
          (p.kind = "findByIds" /\ p.ev.list = rIds /\ rEv'.err # "storage") =>
            LET id == p.ev.arg
                inList == Occurs(id, rIds)
            IN /\ rEv'.err = "none" => inList /\ RInStorage(id)
               /\ (RInStorage(id) /\ ~inList) => rEv'.err = "400"
               /\ ~RInStorage(id) => rEv'.err = "404"
     /\ ExistsAnswersMembership]_vars

\* C23 with the relation's scope: the lookup sees only the targets the
\* scope selects; a target outside the scope counts as not found (404),
\* whether or not its id is in the list.
C23_MembershipCheckInScope ==
  [][/\ \A p \in rPending \ rPending' :
          (p.kind = "findByIds" /\ p.ev.list = rIds /\ rEv'.err # "storage") =>
            LET id == p.ev.arg
                inList == Occurs(id, rIds)
                inScope == RSelected(p.where) # {}
            IN /\ rEv'.err = "none" <=> (inScope /\ inList)
               /\ rEv'.err = "400" <=> (inScope /\ ~inList)
               /\ rEv'.err = "404" <=> ~inScope
               /\ inScope => RInStorage(id)
     /\ ExistsAnswersMembership]_vars

\* a target in storage whose id is not in the list: key mismatch
C23_Witness ==
  /\ rEv.op = "findByIdCb" /\ rEv.err = "400"
  /\ RInStorage(rEv.arg)
  /\ ~Occurs(rEv.arg, rIds)

\* a target in storage, outside the scope, whose id is not in the list:
\* not found
C23_WitnessOutOfScope ==
  /\ rEv.op = "findByIdCb" /\ rEv.err = "404"
  /\ RInStorage(rEv.arg)
  /\ ~Occurs(rEv.arg, rIds)

\* a target of the list is delivered by findById
C23_WitnessDelivered ==
  /\ rEv.op = "findByIdCb" /\ rEv.err = "none"
  /\ Occurs(rEv.arg, rIds)

----------------------------------------------------------------------------
(* Properties of ReferencesMany.create *)

\* the list with id added at the end the prepend option names
RListWith(list, id) == IF rDef.options.prepend THEN <<id>> \o list ELSE Append(list, id)

\* C24: ReferencesMany.create persists the new target before it adds the
\* target's id to the source's id list (at the end, or at the front with
\* the prepend option); when persisting the target fails, the id list is
\* unchanged and no update of the id list is issued.
C24_CreateOrdering ==
  [][/\ (\E q \in rPending' \ rPending : q.kind = "create.save") => rIds' = rIds
     /\ \A p \in rPending \ rPending' :
          p.kind = "create.save" =>
            \/ /\ rEv'.op = "createCb" /\ rEv'.err = "save"
               /\ rIds' = rIds
               /\ rTargets' = rTargets
               /\ rPending' = rPending \ {p}
            \/ /\ rEv'.op = "create.save"
               /\ ~RInStorage(rEv'.arg)
               /\ \E t \in rTargets' : t[rDef.keyTo] = rEv'.arg /\ t["tag"] = p.inst["tag"]
               /\ rIds' = RListWith(rIds, rEv'.arg)
               /\ \E q \in rPending' : q.kind = "create.updateAttribute"]_vars

\* a create has completed: the target is stored and its id is the last of
\* the list, on the instance and as persisted
C24_Witness ==
  /\ rEv.op = "createCb" /\ rEv.err = "none"
  /\ RInStorage(rEv.arg)
  /\ ~rDef.options.prepend
  /\ Len(rIds) = 2 /\ rIds[2] = rEv.arg
  /\ rStored = rIds

\* the target could not be persisted
C24_WitnessSaveFailed ==
  /\ rEv.op = "createCb" /\ rEv.err = "save"
  /\ rIds = <<"1">>
  /\ rPending = {}

\* with the prepend option the id is the first of the list
C24_WitnessPrepend ==
  /\ rEv.op = "createCb" /\ rEv.err = "none"
  /\ rDef.options.prepend
  /\ Len(rIds) = 2 /\ rIds[1] = rEv.arg


----------------------------------------------------------------------------
(* Properties of the HasManyThrough join table *)

\* a join row carries the source's primary key and the target id
JoinLinks(joins, id) ==
  \E row \in joins :
    /\ row[throughKeys(hDef)[1]] = hInst[hDef.keyFrom]
    /\ row[throughKeys(hDef)[2]] = id

\* the step in which the count of findById or destroyById is answered for p
CountAnswered(p) ==
  /\ p \in hPending
  /\ p.kind \in {"findById", "destroyById"}
  /\ p \notin hPending'
  /\ hEv'.op \in {"findById.existsCb", "destroyById.existsCb"}
  /\ hEv'.arg = p.arg
  /\ hEv'.err # "storage"

\* the call ends with not-found: nothing is pending for it, nothing is touched
EndsNotFound(p) ==
  /\ hEv'.err = "404"
  /\ hPending' = hPending \ {p}
  /\ hJoins' = hJoins
  /\ hTargets' = hTargets

\* C25: when the storage answers the count of findById(id) or destroyById(id)
\* and no join row links the source to id, the call reports not-found (404),
\* issues neither the lookup nor the delete of the target and leaves the join
\* table unchanged.
C25_ThroughNotFound ==
  [][\A p \in hPending :
       (CountAnswered(p) /\ ~JoinLinks(hJoins, p.arg)) => EndsNotFound(p)]_vars

\* the same for a source whose primary key is not undefined
C25_ThroughNotFoundKeyed ==
  [][\A p \in hPending :
       (CountAnswered(p) /\ ~JoinLinks(hJoins, p.arg) /\ hInst[hDef.keyFrom] # Undef)
         => EndsNotFound(p)]_vars

\* destroyById has deleted a target that no join row linked to the source
C25_WitnessDeletedUnlinked ==
  /\ hEv.op = "destroyByIdCb"
  /\ hEv.err = "none"
  /\ hInst[hDef.keyFrom] = Undef
  /\ hEv.row[throughKeys(hDef)[1]] # hInst[hDef.keyFrom]
  /\ \A t \in hTargets : t[idName] # hEv.arg

C25_WitnessNotFound ==
  /\ hEv.op = "destroyById.existsCb"
  /\ hEv.err = "404"
  /\ hInst[hDef.keyFrom] = "1"
  /\ hPending = {}

\* two join rows of the source for one target
DoubleLink(joins) ==
  \E a, b \in joins :
    /\ a # b
    /\ a[throughKeys(hDef)[1]] = hInst[hDef.keyFrom]
    /\ b[throughKeys(hDef)[1]] = hInst[hDef.keyFrom]
    /\ a[throughKeys(hDef)[2]] = b[throughKeys(hDef)[2]]

\* C26: after any sequence of add and create calls on one source, the join
\* table holds at most one join row per (source key, target key) pair.
C26_AddIdempotent == ~DoubleLink(hJoins)

\* the same for the relations whose join rows satisfy the relation's scope
C26_AddIdempotentInScope ==
  (\A row \in hJoins \ HInitJoins : Matches(row, applyScope(hDef, hInst, NoWhere)))
    => ~DoubleLink(hJoins)

\* add of a linked target has answered with the row that was there
C26_WitnessFound ==
  /\ hEv.op = "addCb"
  /\ hEv.flag = "found"
  /\ hEv.row \in hJoins \ HInitJoins
  /\ hEv.row[throughKeys(hDef)[1]] = hInst[hDef.keyFrom]

\* what exists(id) may report at this point, when the storage answers the count
ExistsAnswers(id) ==
  {ans.n > 0 : ans \in {a \in CountAnswers(hJoins, HasManyThrough_query(id)) : a.k = "n"}}

CachedId(cache, id) ==
  cache.k = "list" /\ \E i \in 1..Len(cache.l) : cache.l[i][idName] = id

ExistsTellsLink ==
  (hEv.op = "existsCb" /\ hEv.err = "none")
    => ((hEv.flag = "true") <=> JoinLinks(hJoins, hEv.arg))

AddedExists ==
  (hEv.op = "addCb" /\ hEv.err = "none") => ExistsAnswers(hEv.arg) = {TRUE}

RemovedIsGone ==
  (hEv.op = "removeCb" /\ hEv.err = "none")
    => /\ ExistsAnswers(hEv.arg) = {FALSE}
       /\ hTargets = HInitTargets
       /\ ~CachedId(hCache, hEv.arg)

\* C27: exists(target) reports true exactly when a join row for (source key,
\* target key) is in the join table; after a successful add(target) exists
\* is true; after a successful remove(target) exists is false, the target is
\* still in storage and is no longer in the relation cache.
C27_LinksAgree == ExistsTellsLink /\ AddedExists /\ RemovedIsGone

\* the same for a relation without custom scope on a source whose primary
\* key is not undefined
C27_LinksAgreeUnscoped ==
  (hDef.scope = NoScope /\ hInst[hDef.keyFrom] # Undef) => C27_LinksAgree

\* a target was added as a record, cached, and removed again
C27_WitnessRemoved ==
  /\ hEv.op = "removeCb"
  /\ hEv.err = "none"
  /\ hEv.arg = "1"
  /\ hCache = ListOf(<<>>)
  /\ hDef.scope = NoScope
  /\ hInst[hDef.keyFrom] = "1"

----------------------------------------------------------------------------
(* Properties of the BelongsTo accessor called with a raw value *)

\* C28: the BelongsTo accessor called with one argument that is neither a
\* function nor a record, and no handler, assigns that argument to the
\* source's foreign key and clears the relation's cache entry.
C28_RawValueSetsForeignKey ==
  (sEv.op = "rawSetter") => (sInst[sDef.keyFrom] = sEv.arg /\ sCache = VUndef)

\* what the call does: the foreign key is undefined afterwards, the cache
\* entry is cleared
C28_RawValueClearsForeignKey ==
  (sEv.op = "rawSetter") => (sInst[sDef.keyFrom] = Undef /\ sCache = VUndef)

\* the accessor was called with a raw value on a source that had a cached target
C28_WitnessKeyLost ==
  /\ sEv.op = "rawSetter"
  /\ sEv.arg = "2"
  /\ sInst[sDef.keyFrom] = Undef
  /\ sDef.type = "belongsTo"

----------------------------------------------------------------------------
(* Properties of throughKeys *)

\* the foreign keys of the join type's belongsTo relations to the source
\* type, in the order of declaration
SelfKeys == findBelongsTo(qCall.relations, qCall.definition.modelTo, idName)

KeyToDeclared == \E i \in 1..Len(SelfKeys) : SelfKeys[i] = qCall.definition.keyTo

KeyToFirst ==
  /\ Len(qRet.keys) = 2
  /\ qRet.keys[1] = qCall.definition.keyTo
  /\ qRet.keys[2] # qCall.definition.keyTo
  /\ \E i \in 1..Len(SelfKeys) : SelfKeys[i] = qRet.keys[2]

\* C29 as stated: for a self-referential, non-polymorphic through relation
\* whose join type has two belongsTo keys to that type, throughKeys returns
\* the descriptor's keyTo first and the other key second, whatever the order
\* of declaration.
C29_KeyToFirst ==
  (qCall.fn = "throughKeys" /\ qRet.done /\ Len(SelfKeys) = 2) => KeyToFirst

\* C29 (amended): when the descriptor's keyTo is one of the two keys,
\* throughKeys returns keyTo first and the other key second, whatever the
\* order of declaration and whichever key the sort compares first; when
\* keyTo is neither of them, it returns the two keys in one order or the
\* other.
C29_KeyToFirstWhenDeclared ==
  (qCall.fn = "throughKeys" /\ qRet.done /\ Len(SelfKeys) = 2)
    => /\ KeyToDeclared => KeyToFirst
       /\ ~KeyToDeclared =>
            qRet.keys \in {SelfKeys, <<SelfKeys[2], SelfKeys[1]>>}

\* the key declared second is the descriptor's keyTo and comes out first
C29_Witness ==
  /\ qCall.fn = "throughKeys"
  /\ qRet.done
  /\ Len(SelfKeys) = 2
  /\ SelfKeys[2] = qCall.definition.keyTo
  /\ qRet.keys = <<SelfKeys[2], SelfKeys[1]>>
  /\ Len(qCall.relations) = 4

\* keyTo names neither key: the order follows the engine's comparison
C29_WitnessUndeclared ==
  /\ qCall.fn = "throughKeys"
  /\ qRet.done
  /\ ~KeyToDeclared
  /\ qRet.keys = <<SelfKeys[2], SelfKeys[1]>>

----------------------------------------------------------------------------
(* Properties of applyScope *)

\* the custom scope of the call: static, or computed from the instance
CustomScope ==
  CASE qCall.definition.scope.kind = "none" -> NoWhere
    [] qCall.definition.scope.kind = "fn" -> ScopeFn(qCall.modelInstance)
    [] OTHER -> qCall.definition.scope.where

\* the relation gets a discriminator condition
Discriminated ==
  qCall.definition.polymorphic.on /\ qCall.definition.type # "belongsTo"

\* the condition the merge order leaves on a field: the custom scope's, else
\* the discriminator's, else the caller's
MergedCondition(f) ==
  IF CustomScope[f] # NoCond THEN CustomScope[f]
  ELSE IF Discriminated /\ f = qCall.definition.polymorphic.discriminator
  THEN IF qCall.definition.polymorphic.invert THEN qCall.definition.modelTo
       ELSE qCall.definition.modelFrom
  ELSE qCall.where[f]

\* C30: applyScope leaves on every field the caller's join condition,
\* replaced on the discriminator field by the source type name (the target
\* type name when inverted) for a polymorphic relation that is not BelongsTo,
\* replaced in turn by the custom scope's condition on the field; a
\* non-polymorphic relation gets no discriminator condition.
C30_ApplyScopeMergeOrder ==
  (qCall.fn = "applyScope" /\ qRet.done)
    => /\ \A f \in Fields : qRet.where[f] = MergedCondition(f)
       /\ (~qCall.definition.polymorphic.on)
            => qRet.where = mergeQuery(qCall.where, CustomScope)

\* a custom scope on the discriminator field of a polymorphic relation has
\* replaced the discriminator condition
C30_Witness ==
  /\ qCall.fn = "applyScope"
  /\ qRet.done
  /\ Discriminated
  /\ CustomScope["type"] = "Link"
  /\ qCall.where["type"] = "Photo"
  /\ qRet.where["type"] = "Link"
  /\ qRet.where["fk"] = "1"

C30_WitnessInverted ==
  /\ qCall.fn = "applyScope"
  /\ qRet.done
  /\ qCall.definition.polymorphic.invert
  /\ qCall.definition.type = "hasOne"
  /\ qRet.where["type"] = "Book"
  /\ qRet.where["tag"] = "a"

----------------------------------------------------------------------------
(* Properties of the HasMany relation cache *)

CacheList(c) == IF c.k = "undef" THEN <<>> ELSE c.l

CachePositions(c, id) == {i \in 1..Len(CacheList(c)) : CacheList(c)[i][idName] = id}

CacheNoDuplicates ==
  \A id \in CacheIds : Cardinality(CachePositions(qCall.cache, id)) <= 1

\* addToCache of a cached id: same length, the record at the entry's position
AddReplacesInPlace ==
  (qRet.done /\ qRet.op = "addToCache" /\ CachePositions(qRet.before, qRet.id) # {})
    => /\ Len(CacheList(qCall.cache)) = Len(CacheList(qRet.before))
       /\ \A i \in 1..Len(CacheList(qRet.before)) :
            CacheList(qCall.cache)[i] =
              IF i \in CachePositions(qRet.before, qRet.id) THEN qRet.inst
              ELSE CacheList(qRet.before)[i]

RemoveLeavesNone ==
  (qRet.done /\ qRet.op = "removeFromCache") => CachePositions(qCall.cache, qRet.id) = {}

\* C31: starting from an absent cache or a list without duplicate ids, after
\* any sequence of addToCache and removeFromCache the cached list holds no
\* two records with equal primary keys; addToCache of a cached id replaces
\* the entry in place, and removeFromCache(id) leaves no record with the id.
C31_CacheDedupe ==
  (qCall.fn = "cache") => (CacheNoDuplicates /\ AddReplacesInPlace /\ RemoveLeavesNone)

\* a cached record was replaced in the first of two places
C31_Witness ==
  /\ qCall.fn = "cache"
  /\ qRet.done
  /\ qRet.op = "addToCache"
  /\ Len(CacheList(qRet.before)) = 2
  /\ CachePositions(qRet.before, qRet.id) = {1}
  /\ qRet.before.l[1] # qRet.inst
  /\ qCall.cache.l[1] = qRet.inst

C31_WitnessRemoved ==
  /\ qCall.fn = "cache"
  /\ qRet.done
  /\ qRet.op = "removeFromCache"
  /\ CachePositions(qRet.before, qRet.id) = {2}
  /\ Len(CacheList(qCall.cache)) = 2

----------------------------------------------------------------------------
(* Properties of applyProperties *)

RuleSource ==
  IF qCall.definition.invertProperties THEN qCall.obj ELSE qCall.modelInstance

\* the record handed in to be written: obj, or the instance when inverted
RuleHost ==
  IF qCall.definition.invertProperties THEN qCall.modelInstance ELSE qCall.obj

\* the pairs <<field, value>> the rule asks to copy
RuleWrites ==
  LET props == qCall.definition.properties
  IN CASE props.kind = "fn" ->
            {PropsFn(RuleSource)[i] : i \in 1..Len(PropsFn(RuleSource))}
       [] props.kind = "list" ->
            {<<props.list[i], RuleSource[props.list[i]]>> : i \in 1..Len(props.list)}
       [] OTHER ->
            {<<props.map[i][2], RuleSource[props.map[i][1]]>> : i \in 1..Len(props.map)}

PropertiesStamped ==
  qCall.definition.polymorphic.on /\ qCall.definition.type # "belongsTo"

\* what field f holds after the copy and the stamp, on a target that held
\* before[f]
CopiedField(before, f) ==
  IF PropertiesStamped /\ f = qCall.definition.polymorphic.discriminator
  THEN IF qCall.definition.polymorphic.invert THEN qCall.definition.modelTo
       ELSE qCall.definition.modelFrom
  ELSE IF \E w \in RuleWrites : w[1] = f
  THEN (CHOOSE w \in RuleWrites : w[1] = f)[2]
  ELSE before[f]

\* C32 as stated: the record handed in as target gets every field the rule
\* names from the source, then the discriminator of a polymorphic relation
\* that is not BelongsTo, and keeps every other field.
C32_CopyRules ==
  (qCall.fn = "applyProperties" /\ qRet.done)
    => \A f \in DOMAIN NoRec : qRet.target[f] = CopiedField(RuleHost, f)

\* C32 (amended): the same of the object the rules write to, which under
\* embedsProperties is not the record handed in but a fresh object holding
\* the source's keyTo alone.
C32_CopyRulesOfTarget ==
  (qCall.fn = "applyProperties" /\ qRet.done)
    => \A f \in DOMAIN NoRec :
         qRet.target[f] =
           CopiedField(IF qCall.definition.embedsProperties
                       THEN [NoRec EXCEPT ![qCall.definition.keyTo] =
                                            RuleSource[qCall.definition.keyTo]]
                       ELSE RuleHost, f)

\* the rule copied a value into the discriminator field and the stamp won
C32_Witness ==
  /\ qCall.fn = "applyProperties"
  /\ qRet.done
  /\ PropertiesStamped
  /\ <<"type", "Link">> \in RuleWrites
  /\ qRet.target["type"] = "Author"
  /\ qRet.target["tag"] = "a"
  /\ qRet.target["fk"] = "9"

C32_WitnessEmbeds ==
  /\ qCall.fn = "applyProperties"
  /\ qRet.done
  /\ qCall.definition.embedsProperties
  /\ qRet.target["id"] = Undef
  /\ qRet.target["fk2"] = "a"

----------------------------------------------------------------------------
(* Properties of the cache write of the asynchronous getters *)

\* the step in which the lookup p of a getter is answered
LookupAnswered(p) ==
  /\ p \in sPending
  /\ p.kind = "findOne"
  /\ p \notin sPending'
  /\ sEv'.op = "findOneCb"

\* C33: whenever the lookup callback of the BelongsTo or HasOne getter
\* writes the cache, the record's key (keyTo) equals the bound instance's key
\* (keyFrom) as it is at that moment; an answered record whose key differs
\* from the instance's current key is reported as key mismatch (400) and the
\* cache is left as it was.
C33_CacheWriteMatchesCurrentKey ==
  [][\A p \in sPending :
       LookupAnswered(p) =>
         /\ (sCache' # sCache)
              => (/\ sCache'.k = "rec"
                  /\ NotNullish(sInst'[sDef.keyFrom])
                  /\ sCache'.r[sDef.keyTo] = sInst'[sDef.keyFrom])
         /\ (sEv'.resp.k = "rec" /\ sEv'.resp.r[sDef.keyTo] # sInst[sDef.keyFrom])
              => (sEv'.err = "400" /\ sCache' = sCache)]_vars

\* a lookup started under one foreign key was answered after the setter
\* had moved the instance to another target, which is still in the cache
C33_Witness ==
  /\ sEv.op = "findOneCb"
  /\ sDef.type = "belongsTo"
  /\ sEv.err = "400"
  /\ sEv.resp.k = "rec"
  /\ sEv.resp.r[sDef.keyTo] = "1"
  /\ sInst[sDef.keyFrom] = "2"
  /\ sCache.k = "rec"
  /\ sCache.r[sDef.keyTo] = "2"

C33_WitnessWritten ==
  /\ sEv.op = "findOneCb"
  /\ sDef.type = "hasOne"
  /\ sEv.err = "none"
  /\ sCache = sEv.val
  /\ sCache.k = "rec"

----------------------------------------------------------------------------
(* Properties of the completion of relation operations *)

\* the last step belongs to a create, update or destroy call whose handler
\* has not been invoked yet
HandlerOutstanding == sEv.op \in {"create", "update", "destroy"}

\* C34: every relation operation invoked with a completion handler invokes
\* it exactly once, given that every storage call invokes its callback once.
\* Each callback step of the operations invokes the handler or issues one
\* further storage call, so the claim comes to this: a call whose handler
\* has not been invoked has a storage call or tick of its own under way.
C34_ExactlyOnceCompletion ==
  HandlerOutstanding => \E p \in sPending : p.op = sEv.op

\* the same for the calls that did not throw to their caller
C34_CompletionUnlessThrown ==
  (HandlerOutstanding /\ sEv.err # "throw") => \E p \in sPending : p.op = sEv.op

\* update through a polymorphic BelongsTo relation threw and left nothing
\* that could invoke the handler
C34_WitnessThrown ==
  /\ sEv.op = "update"
  /\ sEv.err = "throw"
  /\ sPending = {}

\* ---------------------------------------------------------------------
\* EmbedsMany.prototype.create that fails

\* a call of create on a non-persistent relation ends in this step with an
\* error: p is the call that leaves the pending set
CreateFails(p) ==
  /\ p \in ePending
  /\ p \notin ePending'
  /\ ~eDef.options.persistent
  /\ eEv'.op = "createCb"
  /\ eEv'.err # "none"

\* C35: when create(data) on a non-persistent EmbedsMany relation fails (the
\* built item is invalid, the 'before save' hook errors, or the save of the
\* source fails), the embedded list of the source instance is the list it
\* held before the call.
C35_FailedCreateRestoresList ==
  [][\A p \in ePending : CreateFails(p) => eList' = p.base]_vars

\* what the code does keep: a failed create leaves the persisted list as it
\* was, and the instance's list is the old one with the rejected item added
C35_FailedCreateKeepsStored ==
  [][\A p \in ePending : CreateFails(p) =>
        /\ eStored' = eStored
        /\ eList' \in {Append(p.base, p.item), <<p.item>> \o p.base}]_vars

\* a create has failed and the rejected item is in the instance's list but
\* not in the persisted one
C35_WitnessItemLeft ==
  /\ eEv.op = "createCb"
  /\ eEv.err \in {"invalid item", "hook", "validation", "storage"}
  /\ ~eDef.options.persistent
  /\ ePending = {}
  /\ \E i \in 1..Len(eList) : eList[i].id = eEv.arg
  /\ \A i \in 1..Len(eStored) : eStored[i].id # eEv.arg

\* ---------------------------------------------------------------------
\* HasMany.prototype.destroyById that fails

\* a call of destroyById ends in this step with an error handed to cb
DestroyFails(p) ==
  /\ p \in hPending
  /\ p \notin hPending'
  /\ p.kind \in {"destroyFind", "destroy"}
  /\ hEv'.op = "destroyCb"
  /\ hEv'.err # "none"

\* the records of a relation cache
CacheSet(cache) == {cache.l[i] : i \in 1..Len(cache.l)}

\* C36: when destroyById(id) on a plain HasMany relation fails (findById
\* reports an error, or the destroy of the target does), the relation cache
\* still holds every record it held before the call.
C36_FailedDestroyKeepsCache ==
  [][\A p \in hPending :
       DestroyFails(p) => CacheSet(p.cache) \subseteq CacheSet(hCache')]_vars

\* what the code keeps: the cache is untouched when findById reports the
\* error, and loses at most the record of the id when destroy does
C36_FailedFindKeepsCache ==
  [][\A p \in hPending :
       DestroyFails(p) =>
         /\ p.kind = "destroyFind" => hCache' = p.cache
         /\ hCache' = IF p.kind = "destroy" THEN removeFromCache(p.cache, p.arg)
                      ELSE p.cache
         /\ hTargets' = hTargets]_vars

\* destroy of book 1 failed: the book is stored and no longer in the cache
C36_WitnessDropped ==
  /\ hEv.op = "destroyCb"
  /\ hEv.err = "storage"
  /\ hEv.resp = VRec(Rec("Book", "1", "1", "a"))
  /\ hEv.resp.r \in hTargets
  /\ hCache.k = "list"
  /\ hEv.resp.r \notin CacheSet(hCache)
  /\ hPending = {}

----------------------------------------------------------------------------
(* Properties of HasManyThrough.prototype.destroyById *)

\* a join row that the relation's own query for id selects
JoinLinksInScope(joins, id) ==
  \E row \in joins : Matches(row, HasManyThrough_query(id))

\* the step that deletes a target finds no join row of the source for it
RemovedBeforeDelete(links(_, _)) ==
  \A p \in hPending :
    (p.kind = "modelTo.deleteById" /\ p \notin hPending') => ~links(hJoins, p.arg)

\* a failed remove ends the call with the error and deletes no target
FailedRemoveStops ==
  \A p \in hPending :
    (p.kind = "destroyById.remove" /\ p \notin hPending' /\ hEv'.err # "none")
      => /\ hEv'.op = "destroyById.removeCb"
         /\ hPending' = hPending \ {p}
         /\ hTargets' = hTargets
         /\ hJoins' = hJoins

\* a successful destroyById leaves neither join row nor target
DestroyedIsGone(links(_, _)) ==
  (hEv'.op = "destroyByIdCb" /\ hEv'.err = "none")
    => /\ ~links(hJoins', hEv'.arg)
       /\ \A t \in hTargets' : t[idName] # hEv'.arg

\* C37: destroyById of a through relation removes the join row linking
\* source and target before it deletes the target; when the removal of the
\* join row fails the target is not deleted and the error is reported; after
\* a successful destroyById neither a join row for (source, target) nor the
\* target is left.
C37_JoinRowFirst ==
  [][/\ RemovedBeforeDelete(JoinLinks)
     /\ FailedRemoveStops
     /\ DestroyedIsGone(JoinLinks)]_vars

\* the same for the join rows that satisfy the relation's scope
C37_JoinRowFirstInScope ==
  [][/\ RemovedBeforeDelete(JoinLinksInScope)
     /\ FailedRemoveStops
     /\ DestroyedIsGone(JoinLinksInScope)]_vars

\* book 1 is deleted and a join row of the source for it is left
C37_WitnessRowLeft ==
  /\ hEv.op = "destroyByIdCb"
  /\ hEv.err = "none"
  /\ hEv.arg = "1"
  /\ hInst[hDef.keyFrom] = "1"
  /\ JoinLinks(hJoins, "1")
  /\ \A t \in hTargets : t[idName] # "1"

\* book 1 and its only join row are deleted, in that order
C37_WitnessGone ==
  /\ hEv.op = "destroyByIdCb"
  /\ hEv.err = "none"
  /\ hEv.arg = "1"
  /\ hInst[hDef.keyFrom] = "1"
  /\ ~JoinLinks(hJoins, "1")
  /\ \A t \in hTargets : t[idName] # "1"

----------------------------------------------------------------------------
(* Properties of ReferencesMany.prototype.destroyById *)

\* the step that destroys a target finds its id gone from the persisted list
DestroyedAfterUnlink ==
  \A p \in rPending :
    (p.kind = "destroyById.destroy" /\ p \notin rPending' /\ rTargets' # rTargets)
      => findIndexOf(rStored, p.inst[rDef.keyTo]) = 0

\* a failed removal of the id ends the call with the error
FailedUnlinkStops ==
  \A p \in rPending :
    (p.kind = "destroyById.updateAttribute" /\ p \notin rPending'
       /\ findIndexOf(rStored', p.inst[rDef.keyTo]) > 0)
      => /\ rPending' = rPending \ {p}
         /\ rEv'.op = "destroyByIdCb"
         /\ rEv'.err # "none"

\* C38: destroyById of a ReferencesMany relation destroys the target only
\* after its id has been removed from the persisted id list of the source;
\* when the removal of the id fails the target is not destroyed and the
\* error reaches the completion handler.
C38_UnlinkBeforeDestroy == [][DestroyedAfterUnlink /\ FailedUnlinkStops]_vars

\* what the code keeps: the target is destroyed only after its id has left
\* the list of the instance, and a failed findById destroys nothing
C38_UnlinkedInMemory ==
  [][/\ \A p \in rPending :
          (p.kind = "destroyById.destroy" /\ p \notin rPending')
            => findIndexOf(rIds, p.inst[rDef.keyTo]) = 0
     /\ \A p \in rPending :
          (p.kind = "destroyById.findByIds" /\ p \notin rPending' /\ rEv'.err # "none")
            => (rPending' = rPending \ {p} /\ rIds' = rIds /\ rEv'.op = "destroyByIdCb")]_vars

\* order 1 is destroyed and the persisted list of the source still names it
C38_WitnessDangling ==
  /\ rEv.op = "destroyByIdCb"
  /\ rEv.err = "none"
  /\ rEv.arg = "1"
  /\ findIndexOf(rStored, "1") > 0
  /\ findIndexOf(rIds, "1") = 0
  /\ \A t \in rTargets : t[rDef.keyTo] # "1"

----------------------------------------------------------------------------
(* Properties of the ids EmbedsMany.prototype.build assigns *)

\* the ids of a list, as numbers
ListIdNums(list) == {IdNum(list[i][eDef.keyTo]) : i \in 1..Len(list)}

DistinctIds(list) ==
  \A i, j \in 1..Len(list) : i # j => list[i][eDef.keyTo] # list[j][eDef.keyTo]

\* the step is a build: one item, the one made last, has entered the list
Built(item) ==
  /\ eNextOid' = eNextOid + 1
  /\ item.oid = eNextOid'
  /\ \E i \in 1..Len(eList') : eList'[i] = item

\* the id of the new item is one more than the largest id in the list the
\* build found, 1 when that list was empty
NewIdIsNext ==
  \A i \in 1..Len(eList') :
    Built(eList'[i]) =>
      IdNum(eList'[i][eDef.keyTo]) =
        IF eList = <<>> THEN 1
        ELSE 1 + (CHOOSE n \in ListIdNums(eList) : \A m \in ListIdNums(eList) : m <= n)

\* C39: on a non-persistent EmbedsMany relation with numeric ids, after any
\* sequence of build and create calls without explicit ids and of
\* destroyById calls, the items of the embedded list have pairwise distinct
\* ids, and each id build assigns is one more than the largest id in the
\* list at that time (1 for an empty list).
C39_AutomaticIds ==
  [][~eDef.options.persistent => (NewIdIsNext /\ DistinctIds(eList'))]_vars

\* an item was destroyed and a later build numbered its item past the
\* largest id left, not by the length of the list
C39_Witness ==
  /\ Len(eList) = 2
  /\ ListIdNums(eList) = {2, 3}
  /\ ~eDef.options.persistent

\* the first item of an empty list has id 1
C39_WitnessFirst ==
  /\ Len(eList) = 1
  /\ eList[1].oid = 1
  /\ eList[1][eDef.keyTo] = "1"

----------------------------------------------------------------------------
(* Properties of prepareEmbeddedInstance called again *)

\* the callback of the source's update ends the action: no further update
\* of the source is issued for it
OneUpdatePerAction ==
  \A r \in pRuns \ pRuns' :
    (r.phase \in PersistPhases /\ r.action \in {"save", "destroy"})
      => \A q \in pRuns' : q.id # r.id

\* C40: preparing an embedded record again, as every embeddedValue or
\* embeddedList access does, installs no second wrapper, so one 'save' or
\* 'destroy' of the record causes exactly one update of the source however
\* often the relation was accessed before.
C40_PreparedOnce == [][OneUpdatePerAction]_vars

\* what the code does: an action started on a record that was prepared n
\* times has n updates of the source ahead, and each callback of an update
\* leaves one fewer
C40_UpdatePerPreparation ==
  [][/\ \A q \in pRuns' :
          (q.phase = "work" /\ \A r \in pRuns : r.id # q.id) => q.left = pWraps[q.inst]
     /\ \A r \in pRuns \ pRuns' :
          r.phase \in PersistPhases =>
            \/ r.left = 0 /\ \A q \in pRuns' : q.id # r.id
            \/ r.left > 0 /\ \E q \in pRuns' : q.id = r.id /\ q.left = r.left - 1]_vars
====
